---- MODULE Spec2Model ----
(***************************************************************************)
(* A model of the spreadsheet dashboard (src/unnamed/part_001) and of the  *)
(* tower map (src/src/types.d.ts).                                         *)
(*                                                                         *)
(* JavaScript strings are sequences of one-character strings, so that     *)
(* trimming, replacing, substring search and number parsing are computed   *)
(* character by character.  JavaScript numbers are fixed-point integers,   *)
(* in units of 1/Scale: 10.5 is 1050.  Number literals with an exponent,   *)
(* hexadecimal literals and "Infinity" are outside the alphabet of the     *)
(* inputs.                                                                 *)
(***************************************************************************)
EXTENDS Integers, Sequences, FiniteSets, TLC

VARIABLES
    \* analyzeField called on one column
    values, fieldName, fieldInfo,
    \* processFileData called on the rows of one sheet
    rawData, fileData,
    \* findColumnValue called on one row with one list of names
    lookupRow, lookupNames, lookupResult,
    \* processExcelData called on the rows of one CSV export
    csvRows, towerData,
    \* cleanString: the string and the limit it is given, and what it returns
    cleanInput, cleanLimit, cleanOutput,
    \* a marker: the voltage of its tower, and its colour and size
    markerVoltage, markerColor, markerSize,
    \* which pure call has been made: "input" before, "done" after
    phase,
    \* the mounted page ("dashboard" or "map"), whether the API key and the
    \* folder id are configured, and whether the mount effect has run
    view, configured, mounted,
    \* the state of the page
    isLoading, error, loadingProgress, files, towers,
    \* fetchGoogleDriveFiles: where the running call waits, and its locals
    pc, excelFiles, fileIndex, processedFiles, allTowers,
    \* history: the files whose download was started, what each download
    \* answered, and how the last call ended
    attempted, outcomes, batchEnd

classifyVars == <<values, fieldName, fieldInfo>>
fileVars == <<rawData, fileData>>
lookupVars == <<lookupRow, lookupNames, lookupResult>>
towerVars == <<csvRows, towerData>>
unitVars == <<cleanInput, cleanLimit, cleanOutput, markerVoltage, markerColor, markerSize>>
pureVars == <<values, fieldName, fieldInfo, rawData, fileData,
              lookupRow, lookupNames, lookupResult, csvRows, towerData, unitVars, phase>>
pageVars == <<view, configured, mounted, isLoading, error, loadingProgress, files, towers,
              pc, excelFiles, fileIndex, processedFiles, allTowers, attempted, outcomes, batchEnd>>
vars == <<pureVars, pageVars>>

----------------------------------------------------------------------------
(* Bounds of the model *)

\* longest column handed to analyzeField
MaxValues == 3

\* most rows of a sheet whose cells are enumerated
MaxRows == 2

\* most rows of a sheet built to have many groups
MaxBigRows == 12

\* most columns of a row handed to findColumnValue
MaxKeys == 2

\* most rows of a CSV export handed to processExcelData
MaxCsvRows == 2

\* most files the folder lists
MaxFiles == 2

\* longest string handed to cleanString
MaxCleanLen == 6

\* largest voltage of a marker, either side of 0
MaxVoltage == 600

\* longest of the long columns handed to analyzeField
MaxBigColumn == 30

\* numbers carry two decimal places
Scale == 10 * 10

----------------------------------------------------------------------------
(* Characters and strings *)

Digits == {"0", "1", "2", "3", "4", "5", "6", "7", "8", "9"}

DigitVal(c) ==
    CASE c = "0" -> 0 [] c = "1" -> 1 [] c = "2" -> 2 [] c = "3" -> 3
      [] c = "4" -> 4 [] c = "5" -> 5 [] c = "6" -> 6 [] c = "7" -> 7
      [] c = "8" -> 8 [] c = "9" -> 9

DigitChar(d) ==
    CASE d = 0 -> "0" [] d = 1 -> "1" [] d = 2 -> "2" [] d = 3 -> "3"
      [] d = 4 -> "4" [] d = 5 -> "5" [] d = 6 -> "6" [] d = 7 -> "7"
      [] d = 8 -> "8" [] d = 9 -> "9"

WhiteSpace == {" ", "\t", "\n", "\r"}

UpperToLower ==
    [c \in {"A", "B", "C", "D", "E", "F", "G", "H", "I", "J", "K", "L", "M",
            "N", "O", "P", "Q", "R", "S", "T", "U", "V", "W", "X", "Y", "Z"} |->
        CASE c = "A" -> "a" [] c = "B" -> "b" [] c = "C" -> "c" [] c = "D" -> "d"
          [] c = "E" -> "e" [] c = "F" -> "f" [] c = "G" -> "g" [] c = "H" -> "h"
          [] c = "I" -> "i" [] c = "J" -> "j" [] c = "K" -> "k" [] c = "L" -> "l"
          [] c = "M" -> "m" [] c = "N" -> "n" [] c = "O" -> "o" [] c = "P" -> "p"
          [] c = "Q" -> "q" [] c = "R" -> "r" [] c = "S" -> "s" [] c = "T" -> "t"
          [] c = "U" -> "u" [] c = "V" -> "v" [] c = "W" -> "w" [] c = "X" -> "x"
          [] c = "Y" -> "y" [] c = "Z" -> "z"]

\* String.prototype.toLowerCase
toLowerCase(s) ==
    [i \in 1..Len(s) |-> IF s[i] \in DOMAIN UpperToLower THEN UpperToLower[s[i]] ELSE s[i]]

\* String.prototype.includes
includes(s, sub) ==
    \E i \in 1..(Len(s) - Len(sub) + 1) : SubSeq(s, i, i + Len(sub) - 1) = sub

\* String.prototype.replace(/[...]/g, ""): every character of the class removed
RemoveChars(s, class) == SelectSeq(s, LAMBDA c : c \notin class)

RECURSIVE TrimStart(_)
TrimStart(s) ==
    IF s # <<>> /\ Head(s) \in WhiteSpace THEN TrimStart(Tail(s)) ELSE s

RECURSIVE TrimEnd(_)
TrimEnd(s) ==
    IF s # <<>> /\ s[Len(s)] \in WhiteSpace THEN TrimEnd(SubSeq(s, 1, Len(s) - 1)) ELSE s

\* String.prototype.trim
trim(s) == TrimEnd(TrimStart(s))

\* the longest prefix of s made of digits
RECURSIVE DigitPrefix(_)
DigitPrefix(s) ==
    IF s # <<>> /\ Head(s) \in Digits THEN <<Head(s)>> \o DigitPrefix(Tail(s)) ELSE <<>>

AllDigits(s) == \A i \in 1..Len(s) : s[i] \in Digits

\* the value of a string of digits
RECURSIVE IntOfDigits(_)
IntOfDigits(s) ==
    IF s = <<>> THEN 0 ELSE 10 * IntOfDigits(SubSeq(s, 1, Len(s) - 1)) + DigitVal(s[Len(s)])

\* the value, in units of 1/Scale, of the digits that follow a decimal point
FracOfDigits(s) ==
    (IF Len(s) >= 1 THEN DigitVal(s[1]) * (Scale \div 10) ELSE 0)
  + (IF Len(s) >= 2 THEN DigitVal(s[2]) * (Scale \div 100) ELSE 0)

----------------------------------------------------------------------------
(* JavaScript values and conversions *)

JsNull == [t |-> "null", s |-> <<>>, n |-> 0]
JsUndefined == [t |-> "undefined", s |-> <<>>, n |-> 0]
JsNaN == [t |-> "NaN", s |-> <<>>, n |-> 0]
JsStr(str) == [t |-> "string", s |-> str, n |-> 0]
JsNum(k) == [t |-> "number", s |-> <<>>, n |-> k]

IsNaN(v) == v.t = "NaN"

\* the digits of a natural number
RECURSIVE DigitsOfNat(_)
DigitsOfNat(k) ==
    IF k < 10 THEN <<DigitChar(k)>> ELSE DigitsOfNat(k \div 10) \o <<DigitChar(k % 10)>>

\* Number.prototype.toString of a fixed-point number: no trailing zeros
NumberToString(k) ==
    LET a == IF k < 0 THEN -k ELSE k
        whole == DigitsOfNat(a \div Scale)
        f == a % Scale
        frac == IF f = 0 THEN <<>>
                ELSE IF f % 10 = 0 THEN <<".", DigitChar(f \div 10)>>
                ELSE <<".", DigitChar(f \div 10), DigitChar(f % 10)>>
    IN  (IF k < 0 THEN <<"-">> ELSE <<>>) \o whole \o frac

\* String(v) and v.toString() of a string or a number
JsToString(v) ==
    CASE v.t = "string" -> v.s
      [] v.t = "number" -> NumberToString(v.n)
      [] v.t = "NaN" -> <<"N", "a", "N">>
      [] v.t = "null" -> <<"n", "u", "l", "l">>
      [] v.t = "undefined" -> <<"u", "n", "d", "e", "f", "i", "n", "e", "d">>

\* String.prototype.indexOf, counted from 1: 0 when c is not in s
RECURSIVE IndexOf(_, _, _)
IndexOf(s, c, from) ==
    IF from > Len(s) THEN 0
    ELSE IF s[from] = c THEN from
    ELSE IndexOf(s, c, from + 1)

\* an unsigned decimal literal: digits, digits.digits, digits. or .digits
UnsignedDecimal(s) ==
    LET dot == IndexOf(s, ".", 1)
        whole == IF dot = 0 THEN s ELSE SubSeq(s, 1, dot - 1)
        frac == IF dot = 0 THEN <<>> ELSE SubSeq(s, dot + 1, Len(s))
    IN  IF AllDigits(whole) /\ AllDigits(frac) /\ Len(whole) + Len(frac) >= 1
        THEN JsNum(IntOfDigits(whole) * Scale + FracOfDigits(frac))
        ELSE JsNaN

\* Number(str): the whole trimmed string is a literal; the empty string is 0
StringToNumber(str) ==
    LET s == trim(str)
    IN  IF s = <<>> THEN JsNum(0)
        ELSE IF Head(s) = "-"
             THEN LET u == UnsignedDecimal(Tail(s))
                  IN  IF IsNaN(u) THEN JsNaN ELSE JsNum(-u.n)
        ELSE IF Head(s) = "+" THEN UnsignedDecimal(Tail(s))
        ELSE UnsignedDecimal(s)

\* parseFloat(str): the longest numeric prefix, NaN when there is none
parseFloat(str) ==
    LET s == TrimStart(str)
        neg == s # <<>> /\ Head(s) = "-"
        u == IF s # <<>> /\ Head(s) \in {"-", "+"} THEN Tail(s) ELSE s
        whole == DigitPrefix(u)
        rest == SubSeq(u, Len(whole) + 1, Len(u))
        frac == IF rest # <<>> /\ Head(rest) = "." THEN DigitPrefix(Tail(rest)) ELSE <<>>
        k == IntOfDigits(whole) * Scale + FracOfDigits(frac)
    IN  IF Len(whole) + Len(frac) = 0 THEN JsNaN
        ELSE JsNum(IF neg THEN -k ELSE k)

----------------------------------------------------------------------------
(* analyzeField: the type and the role of one column *)

\* the values filtered out as empty
NotAvailable == <<"N", "/", "A">>

nonNullValuesOf(vals) ==
    SelectSeq(vals, LAMBDA v : v # JsNull /\ v # JsUndefined
                               /\ v # JsStr(<<>>) /\ v # JsStr(NotAvailable))

\* Array.from(new Set(seq)): the first occurrence of each element, in order
RECURSIVE Distinct(_)
Distinct(seq) ==
    IF seq = <<>> THEN <<>>
    ELSE LET init == Distinct(SubSeq(seq, 1, Len(seq) - 1))
             last == seq[Len(seq)]
         IN  IF \E i \in 1..Len(init) : init[i] = last THEN init ELSE Append(init, last)

\* how many leading values the samples are taken from
SampleSize == 5

sampleValuesOf(nonNull) ==
    LET first == SubSeq(nonNull, 1, IF Len(nonNull) < SampleSize THEN Len(nonNull) ELSE SampleSize)
        set == Distinct(first)
    IN  [i \in 1..Len(set) |-> JsToString(set[i])]

\* v.toString().replace(/[$,%]/g, "")
NumStr(v) == RemoveChars(JsToString(v), {"$", ",", "%"})

IsNumeric(v) == ~IsNaN(StringToNumber(NumStr(v))) /\ trim(NumStr(v)) # <<>>

\* the numeric subset of the column, as numbers
numericValuesOf(nonNull) ==
    LET kept == SelectSeq(nonNull, IsNumeric)
    IN  [i \in 1..Len(kept) |-> StringToNumber(NumStr(kept[i])).n]

\* /^\$?\d+(\.\d{2})?$/
MatchesCurrency(s) ==
    LET u == IF s # <<>> /\ Head(s) = "$" THEN Tail(s) ELSE s
        whole == DigitPrefix(u)
        rest == SubSeq(u, Len(whole) + 1, Len(u))
    IN  /\ Len(whole) >= 1
        /\ \/ rest = <<>>
           \/ Len(rest) = 3 /\ rest[1] = "." /\ rest[2] \in Digits /\ rest[3] \in Digits

LooksLikeCurrency(v) == v.t = "string" /\ MatchesCurrency(RemoveChars(v.s, {","}))

RECURSIVE SumSeq(_)
SumSeq(seq) == IF seq = <<>> THEN 0 ELSE seq[1] + SumSeq(Tail(seq))

MinSeq(seq) == CHOOSE m \in {seq[i] : i \in 1..Len(seq)} : \A i \in 1..Len(seq) : m <= seq[i]
MaxSeq(seq) == CHOOSE m \in {seq[i] : i \in 1..Len(seq)} : \A i \in 1..Len(seq) : m >= seq[i]

\* total / count, kept as a fraction
Ratio(a, b) == [t |-> "ratio", num |-> a, den |-> b]

NoStats == [total |-> JsUndefined, average |-> JsUndefined, min |-> JsUndefined, max |-> JsUndefined]

StatsOf(numeric) ==
    IF Len(numeric) > 0
    THEN [total |-> JsNum(SumSeq(numeric)),
          average |-> Ratio(SumSeq(numeric), Len(numeric)),
          min |-> JsNum(MinSeq(numeric)),
          max |-> JsNum(MaxSeq(numeric))]
    ELSE NoStats

\* the currency test without its typeof
LooksLikeCurrency_anyType(v) == MatchesCurrency(RemoveChars(JsToString(v), {","}))

\* the three tests, the category test allowing 20 unique values at most
StatisticalPass_twentyAtMost(nonNull, numeric) ==
    LET uniqueValues == Cardinality({nonNull[i] : i \in 1..Len(nonNull)})
    IN  IF \E i \in 1..Len(nonNull) : LooksLikeCurrency(nonNull[i])
        THEN [type |-> "currency", isMetric |-> TRUE, isDimension |-> FALSE,
              stats |-> StatsOf(numeric)]
        ELSE IF 10 * Len(numeric) >= 8 * Len(nonNull)
        THEN [type |-> "number", isMetric |-> TRUE, isDimension |-> FALSE,
              stats |-> StatsOf(numeric)]
        ELSE IF /\ uniqueValues > 1
                /\ uniqueValues <= 20
                /\ 2 * Len(numeric) < Len(nonNull)
        THEN [type |-> "category", isMetric |-> FALSE, isDimension |-> TRUE, stats |-> NoStats]
        ELSE [type |-> "text", isMetric |-> FALSE, isDimension |-> FALSE, stats |-> NoStats]

\* the three tests, the number test ahead of the currency test
StatisticalPass_numberFirst(nonNull, numeric) ==
    LET uniqueValues == Cardinality({nonNull[i] : i \in 1..Len(nonNull)})
    IN  IF 10 * Len(numeric) >= 8 * Len(nonNull)
        THEN [type |-> "number", isMetric |-> TRUE, isDimension |-> FALSE,
              stats |-> StatsOf(numeric)]
        ELSE IF \E i \in 1..Len(nonNull) : LooksLikeCurrency(nonNull[i])
        THEN [type |-> "currency", isMetric |-> TRUE, isDimension |-> FALSE,
              stats |-> StatsOf(numeric)]
        ELSE IF /\ uniqueValues > 1
                /\ (uniqueValues <= 20 \/ 10 * uniqueValues <= 7 * Len(nonNull))
                /\ 2 * Len(numeric) < Len(nonNull)
        THEN [type |-> "category", isMetric |-> FALSE, isDimension |-> TRUE, stats |-> NoStats]
        ELSE [type |-> "text", isMetric |-> FALSE, isDimension |-> FALSE, stats |-> NoStats]

\* the three tests on the values: currency, then number, then category
StatisticalPass(nonNull, numeric) ==
    LET uniqueValues == Cardinality({nonNull[i] : i \in 1..Len(nonNull)})
    IN  IF \E i \in 1..Len(nonNull) : LooksLikeCurrency(nonNull[i])
        THEN [type |-> "currency", isMetric |-> TRUE, isDimension |-> FALSE,
              stats |-> StatsOf(numeric)]
        ELSE IF 10 * Len(numeric) >= 8 * Len(nonNull)
        THEN [type |-> "number", isMetric |-> TRUE, isDimension |-> FALSE,
              stats |-> StatsOf(numeric)]
        ELSE IF /\ uniqueValues > 1
                /\ (uniqueValues <= 20 \/ 10 * uniqueValues <= 7 * Len(nonNull))
                /\ 2 * Len(numeric) < Len(nonNull)
        THEN [type |-> "category", isMetric |-> FALSE, isDimension |-> TRUE, stats |-> NoStats]
        ELSE [type |-> "text", isMetric |-> FALSE, isDimension |-> FALSE, stats |-> NoStats]

kwName == <<"n", "a", "m", "e">>
kwMesin == <<"m", "e", "s", "i", "n">>
kwCategory == <<"c", "a", "t", "e", "g", "o", "r", "y">>
kwType == <<"t", "y", "p", "e">>
kwStatus == <<"s", "t", "a", "t", "u", "s">>
kwDepartment == <<"d", "e", "p", "a", "r", "t", "m", "e", "n", "t">>
kwTotal == <<"t", "o", "t", "a", "l">>
kwAmount == <<"a", "m", "o", "u", "n", "t">>
kwJam == <<"j", "a", "m">>
kwHour == <<"h", "o", "u", "r">>
kwCount == <<"c", "o", "u", "n", "t">>
kwSum == <<"s", "u", "m">>
kwQty == <<"q", "t", "y">>
kwQuantity == <<"q", "u", "a", "n", "t", "i", "t", "y">>
kwPrice == <<"p", "r", "i", "c", "e">>
kwCost == <<"c", "o", "s", "t">>

DimensionKeywords == {kwName, kwMesin, kwCategory, kwType, kwStatus, kwDepartment}
MetricKeywords == {kwTotal, kwAmount, kwJam, kwHour, kwCount, kwSum, kwQty, kwQuantity, kwPrice, kwCost}
MoneyKeywords == {kwPrice, kwCost}

HasKeyword(name, keywords) == \E k \in keywords : includes(toLowerCase(name), k)

OverrideA_keepsMetric(r, name) ==
    IF HasKeyword(name, DimensionKeywords)
    THEN [r EXCEPT !.type = "category", !.isDimension = TRUE]
    ELSE r

\* the names that force a dimension
OverrideA(r, name) ==
    IF HasKeyword(name, DimensionKeywords)
    THEN [r EXCEPT !.type = "category", !.isDimension = TRUE, !.isMetric = FALSE]
    ELSE r

\* the names that force a metric, when the column has a numeric value
OverrideB(r, name, numeric) ==
    IF HasKeyword(name, MetricKeywords) /\ Len(numeric) > 0
    THEN [r EXCEPT !.type = IF HasKeyword(name, MoneyKeywords) THEN "currency" ELSE "number",
                   !.isMetric = TRUE, !.isDimension = FALSE]
    ELSE r

FieldInfoOf(name, r, uniqueValues, sampleValues) ==
    [name |-> name, type |-> r.type, isMetric |-> r.isMetric, isDimension |-> r.isDimension,
     uniqueValues |-> uniqueValues, sampleValues |-> sampleValues,
     total |-> r.stats.total, average |-> r.stats.average,
     min |-> r.stats.min, max |-> r.stats.max]

\* the descriptor of a column with no value
EmptyFieldInfo(name) ==
    FieldInfoOf(name, [type |-> "text", isMetric |-> FALSE, isDimension |-> FALSE, stats |-> NoStats],
                0, <<>>)

analyzeField_overridesOnEmpty(vals, name) ==
    LET nonNull == nonNullValuesOf(vals)
        numeric == numericValuesOf(nonNull)
        start == IF nonNull = <<>>
                 THEN [type |-> "text", isMetric |-> FALSE, isDimension |-> FALSE, stats |-> NoStats]
                 ELSE StatisticalPass(nonNull, numeric)
    IN  FieldInfoOf(name, OverrideB(OverrideA(start, name), name, numeric),
                    Cardinality({nonNull[i] : i \in 1..Len(nonNull)}), sampleValuesOf(nonNull))

analyzeField_BbeforeA(vals, name) ==
    LET nonNull == nonNullValuesOf(vals)
        numeric == numericValuesOf(nonNull)
    IN  IF nonNull = <<>> THEN EmptyFieldInfo(name)
        ELSE FieldInfoOf(name,
                         OverrideA(OverrideB(StatisticalPass(nonNull, numeric), name, numeric), name),
                         Cardinality({nonNull[i] : i \in 1..Len(nonNull)}),
                         sampleValuesOf(nonNull))

analyzeField(vals, name) ==
    LET nonNull == nonNullValuesOf(vals)
        numeric == numericValuesOf(nonNull)
    IN  IF nonNull = <<>> THEN EmptyFieldInfo(name)
        ELSE FieldInfoOf(name,
                         OverrideB(OverrideA(StatisticalPass(nonNull, numeric), name), name, numeric),
                         Cardinality({nonNull[i] : i \in 1..Len(nonNull)}),
                         sampleValuesOf(nonNull))

----------------------------------------------------------------------------
(* Rows: objects whose keys keep their insertion order *)

\* a row is a sequence of entries [k |-> key, v |-> value] with distinct keys
Keys(row) == [i \in 1..Len(row) |-> row[i].k]

HasKey(row, key) == \E i \in 1..Len(row) : row[i].k = key

\* row[key]: undefined when the row has no such key
Get(row, key) ==
    IF HasKey(row, key)
    THEN row[CHOOSE i \in 1..Len(row) : row[i].k = key].v
    ELSE JsUndefined

\* row[key] = value: an existing key keeps its place
Put(row, key, value) ==
    IF HasKey(row, key)
    THEN [i \in 1..Len(row) |-> IF row[i].k = key THEN [k |-> key, v |-> value] ELSE row[i]]
    ELSE Append(row, [k |-> key, v |-> value])

\* the truthiness of a value
Truthy(v) ==
    CASE v.t = "string" -> v.s # <<>>
      [] v.t = "number" -> v.n # 0
      [] OTHER -> FALSE

----------------------------------------------------------------------------
(* generateBarChart: the first metric summed by the first dimension *)

sUnknown == <<"U", "n", "k", "n", "o", "w", "n">>
sBy == <<" ", "b", "y", " ">>
sBarSuffix == <<"-", "b", "a", "r">>

\* how many bars a chart keeps
TopN == 10

\* (row[dimension.name] as string) || "Unknown", as the key of the group
CategoryOf(row, dimensionName) ==
    LET v == Get(row, dimensionName)
    IN  IF Truthy(v) THEN JsToString(v) ELSE sUnknown

\* parseFloat(String(row[metric.name]).replace(/[$,%]/g, "")) || 0
MetricValueOf(row, metricName) ==
    LET f == parseFloat(RemoveChars(JsToString(Get(row, metricName)), {"$", ",", "%"}))
    IN  IF IsNaN(f) THEN 0 ELSE f.n

\* a key that an object lists before its other keys, in numeric order
IsArrayIndex(key) ==
    /\ key # <<>> /\ AllDigits(key)
    /\ (Len(key) = 1 \/ key[1] # "0")
    /\ Len(key) < 10

\* one entry [k |-> category, v |-> sum] per group, in the order of first use
RECURSIVE Aggregate(_, _, _)
Aggregate(data, dimensionName, metricName) ==
    IF data = <<>> THEN <<>>
    ELSE LET before == Aggregate(SubSeq(data, 1, Len(data) - 1), dimensionName, metricName)
             row == data[Len(data)]
             cat == CategoryOf(row, dimensionName)
             old == IF HasKey(before, cat)
                    THEN before[CHOOSE i \in 1..Len(before) : before[i].k = cat].v
                    ELSE 0
         IN  Put(before, cat, old + MetricValueOf(row, metricName))

RECURSIVE DataTotal(_, _)
DataTotal(data, metricName) ==
    IF data = <<>> THEN 0
    ELSE DataTotal(SubSeq(data, 1, Len(data) - 1), metricName)
         + MetricValueOf(data[Len(data)], metricName)

RECURSIVE SortAscending(_)
SortAscending(points) ==
    IF points = <<>> THEN <<>>
    ELSE LET sorted == SortAscending(SubSeq(points, 1, Len(points) - 1))
             x == points[Len(points)]
             n == Cardinality({i \in 1..Len(sorted) : sorted[i].value <= x.value})
         IN  SubSeq(sorted, 1, n) \o <<x>> \o SubSeq(sorted, n + 1, Len(sorted))

\* Array.prototype.sort with (a, b) => b.value - a.value: stable, descending
RECURSIVE SortDescending(_)
SortDescending(points) ==
    IF points = <<>> THEN <<>>
    ELSE LET sorted == SortDescending(SubSeq(points, 1, Len(points) - 1))
             x == points[Len(points)]
             n == Cardinality({i \in 1..Len(sorted) : sorted[i].value >= x.value})
         IN  SubSeq(sorted, 1, n) \o <<x>> \o SubSeq(sorted, n + 1, Len(sorted))

\* Object.entries: the array-index keys in numeric order, then the others in
\* insertion order
RECURSIVE SortByIndex(_)
SortByIndex(entries) ==
    IF entries = <<>> THEN <<>>
    ELSE LET sorted == SortByIndex(SubSeq(entries, 1, Len(entries) - 1))
             x == entries[Len(entries)]
             n == Cardinality({i \in 1..Len(sorted) : IntOfDigits(sorted[i].k) < IntOfDigits(x.k)})
         IN  SubSeq(sorted, 1, n) \o <<x>> \o SubSeq(sorted, n + 1, Len(sorted))

ObjectEntries(obj) ==
    SortByIndex(SelectSeq(obj, LAMBDA e : IsArrayIndex(e.k)))
    \o SelectSeq(obj, LAMBDA e : ~IsArrayIndex(e.k))

\* slice(0, n)
Slice(seq, n) == SubSeq(seq, 1, IF Len(seq) < n THEN Len(seq) ELSE n)

ChartData(data, dimensionName, metricName) ==
    LET entries == ObjectEntries(Aggregate(data, dimensionName, metricName))
        points == [i \in 1..Len(entries) |-> [category |-> entries[i].k, value |-> entries[i].v]]
    IN  Slice(SortDescending(points), TopN)

generateBarChart_lastField(data, fields, fileId) ==
    LET metrics == SelectSeq(fields, LAMBDA f : f.isMetric)
        dimensions == SelectSeq(fields, LAMBDA f : f.isDimension)
    IN  IF Len(metrics) = 0 \/ Len(dimensions) = 0 THEN JsNull
        ELSE LET metric == metrics[Len(metrics)]
                 dimension == dimensions[Len(dimensions)]
             IN  [t |-> "chart",
                  id |-> fileId \o sBarSuffix,
                  fileId |-> fileId,
                  title |-> metric.name \o sBy \o dimension.name,
                  xAxis |-> dimension.name,
                  yAxis |-> metric.name,
                  data |-> ChartData(data, dimension.name, metric.name),
                  dataTotal |-> DataTotal(data, metric.name)]

generateBarChart_totalOfBars(data, fields, fileId) ==
    LET metrics == SelectSeq(fields, LAMBDA f : f.isMetric)
        dimensions == SelectSeq(fields, LAMBDA f : f.isDimension)
        RECURSIVE SumValues(_)
        SumValues(points) ==
            IF points = <<>> THEN 0 ELSE points[1].value + SumValues(Tail(points))
    IN  IF Len(metrics) = 0 \/ Len(dimensions) = 0 THEN JsNull
        ELSE LET metric == metrics[1]
                 dimension == dimensions[1]
             IN  [t |-> "chart",
                  id |-> fileId \o sBarSuffix,
                  fileId |-> fileId,
                  title |-> metric.name \o sBy \o dimension.name,
                  xAxis |-> dimension.name,
                  yAxis |-> metric.name,
                  data |-> ChartData(data, dimension.name, metric.name),
                  dataTotal |-> SumValues(ChartData(data, dimension.name, metric.name))]

generateBarChart(data, fields, fileId) ==
    LET metrics == SelectSeq(fields, LAMBDA f : f.isMetric)
        dimensions == SelectSeq(fields, LAMBDA f : f.isDimension)
    IN  IF Len(metrics) = 0 \/ Len(dimensions) = 0 THEN JsNull
        ELSE LET metric == metrics[1]
                 dimension == dimensions[1]
             IN  [t |-> "chart",
                  id |-> fileId \o sBarSuffix,
                  fileId |-> fileId,
                  title |-> metric.name \o sBy \o dimension.name,
                  xAxis |-> dimension.name,
                  yAxis |-> metric.name,
                  data |-> ChartData(data, dimension.name, metric.name),
                  dataTotal |-> DataTotal(data, metric.name)]

----------------------------------------------------------------------------
(* processFileData: clean the rows, classify the columns, build the chart *)

\* /^\$?[\d,.]+$/
MatchesNumberLike(s) ==
    LET u == IF s # <<>> /\ Head(s) = "$" THEN Tail(s) ELSE s
    IN  u # <<>> /\ \A i \in 1..Len(u) : u[i] \in Digits \cup {",", "."}

\* a string is trimmed, and becomes a number when it reads as one
CleanValue(v) ==
    IF v.t = "string"
    THEN LET value == trim(v.s)
             numValue == parseFloat(RemoveChars(value, {"$", ","}))
         IN  IF ~IsNaN(numValue) /\ MatchesNumberLike(value) THEN numValue ELSE JsStr(value)
    ELSE v

RECURSIVE CleanRow(_)
CleanRow(row) ==
    IF row = <<>> THEN <<>>
    ELSE Put(CleanRow(SubSeq(row, 1, Len(row) - 1)),
             trim(row[Len(row)].k), CleanValue(row[Len(row)].v))

EmptyFileData(fileId, fileName) ==
    [id |-> fileId, name |-> fileName, data |-> <<>>, fields |-> <<>>, chart |-> JsNull,
     totalRows |-> 0, totalColumns |-> 0]

processFileData(raw, fileName, fileId) ==
    IF Len(raw) = 0 THEN EmptyFileData(fileId, fileName)
    ELSE LET cleanedData == [i \in 1..Len(raw) |-> CleanRow(raw[i])]
             fieldNames == Keys(cleanedData[1])
             fields == [j \in 1..Len(fieldNames) |->
                           analyzeField([i \in 1..Len(cleanedData) |->
                                            Get(cleanedData[i], fieldNames[j])],
                                        fieldNames[j])]
         IN  [id |-> fileId, name |-> fileName, data |-> cleanedData, fields |-> fields,
              chart |-> generateBarChart(cleanedData, fields, fileId),
              totalRows |-> Len(cleanedData), totalColumns |-> Len(fieldNames)]

\* the objects downloadAndParseExcel makes of a sheet: a missing cell is null
FormatRows(headers, rows) ==
    [i \in 1..Len(rows) |->
        LET RECURSIVE Build(_)
            Build(n) ==
                IF n = 0 THEN <<>>
                ELSE Put(Build(n - 1), headers[n],
                         IF n <= Len(rows[i]) /\ rows[i][n] # JsUndefined
                         THEN rows[i][n] ELSE JsNull)
        IN  Build(Len(headers))]

----------------------------------------------------------------------------
(* The tower map: findColumnValue, cleanString, processExcelData *)

\* the value is defined, not null and not blank
Present(v) == v # JsUndefined /\ v # JsNull /\ trim(JsToString(v)) # <<>>

\* one string contains the other, case ignored
Overlaps(key, name) ==
    \/ includes(toLowerCase(key), toLowerCase(name))
    \/ includes(toLowerCase(name), toLowerCase(key))

\* the first (name, key), keys first and names within a key
FirstPartial_keysFirst(row, possibleNames) ==
    LET hits == {p \in (1..Len(possibleNames)) \X (1..Len(row)) :
                    Overlaps(row[p[2]].k, possibleNames[p[1]]) /\ Present(row[p[2]].v)}
    IN  IF hits = {} THEN <<0, 0>>
        ELSE CHOOSE p \in hits :
                \A q \in hits : p[2] < q[2] \/ (p[2] = q[2] /\ p[1] <= q[1])

\* the first (name, key), names first and keys within a name, whose strings
\* overlap and whose value is present: <<i, j>>, or <<0, 0>> when there is none
FirstPartial(row, possibleNames) ==
    LET hits == {p \in (1..Len(possibleNames)) \X (1..Len(row)) :
                    Overlaps(row[p[2]].k, possibleNames[p[1]]) /\ Present(row[p[2]].v)}
    IN  IF hits = {} THEN <<0, 0>>
        ELSE CHOOSE p \in hits :
                \A q \in hits : p[1] < q[1] \/ (p[1] = q[1] /\ p[2] <= q[2])

findColumnValue_untrimmed(row, possibleNames) ==
    LET exact == {i \in 1..Len(possibleNames) : Present(Get(row, possibleNames[i]))}
        partial == FirstPartial(row, possibleNames)
    IN  IF exact # {}
        THEN JsToString(Get(row, possibleNames[CHOOSE i \in exact : \A j \in exact : i <= j]))
        ELSE IF partial # <<0, 0>> THEN JsToString(row[partial[2]].v)
        ELSE <<>>

findColumnValue_anyKey(row, possibleNames) ==
    LET exact == {i \in 1..Len(possibleNames) : Present(Get(row, possibleNames[i]))}
        present == {j \in 1..Len(row) : Present(row[j].v)}
    IN  IF exact # {}
        THEN trim(JsToString(Get(row, possibleNames[CHOOSE i \in exact : \A j \in exact : i <= j])))
        ELSE IF present # {}
        THEN trim(JsToString(row[CHOOSE j \in present : \A k \in present : j <= k].v))
        ELSE <<>>

\* the exact pass in the order of the row's keys
findColumnValue_keyOrder(row, possibleNames) ==
    LET exact == {j \in 1..Len(row) :
                     /\ \E i \in 1..Len(possibleNames) : possibleNames[i] = row[j].k
                     /\ Present(row[j].v)}
        partial == FirstPartial(row, possibleNames)
    IN  IF exact # {}
        THEN trim(JsToString(row[CHOOSE j \in exact : \A k \in exact : j <= k].v))
        ELSE IF partial # <<0, 0>> THEN trim(JsToString(row[partial[2]].v))
        ELSE <<>>

\* exact names first, then overlapping names; "" when nothing is found
findColumnValue(row, possibleNames) ==
    LET exact == {i \in 1..Len(possibleNames) : Present(Get(row, possibleNames[i]))}
        partial == FirstPartial(row, possibleNames)
    IN  IF exact # {}
        THEN trim(JsToString(Get(row, possibleNames[CHOOSE i \in exact : \A j \in exact : i <= j])))
        ELSE IF partial # <<0, 0>> THEN trim(JsToString(row[partial[2]].v))
        ELSE <<>>

\* replace(/,+/g, ","): a run of commas becomes one comma
RECURSIVE CollapseCommas(_)
CollapseCommas(s) ==
    IF Len(s) < 2 THEN s
    ELSE IF s[1] = "," /\ s[2] = "," THEN CollapseCommas(Tail(s))
    ELSE <<s[1]>> \o CollapseCommas(Tail(s))

StripEdgeCommas_startOnly(s) == IF s # <<>> /\ Head(s) = "," THEN Tail(s) ELSE s

\* replace(/^,|,$/g, ""): a comma at the start and a comma at the end removed
StripEdgeCommas(s) ==
    LET a == IF s # <<>> /\ Head(s) = "," THEN Tail(s) ELSE s
    IN  IF a # <<>> /\ a[Len(a)] = "," THEN SubSeq(a, 1, Len(a) - 1) ELSE a

\* String.prototype.split(",")
RECURSIVE SplitOn(_, _)
SplitOn(s, sep) ==
    LET at == IndexOf(s, sep, 1)
    IN  IF at = 0 THEN <<s>>
        ELSE <<SubSeq(s, 1, at - 1)>> \o SplitOn(SubSeq(s, at + 1, Len(s)), sep)

sEllipsis == <<".", ".", ".">>

\* the default maxLength of cleanString
DefaultMaxLength == 50

\* the maxLength given for the substation
SubstationMaxLength == 80

\* a part of exactly 3 characters taken as meaningful
cleanString_threeSuffices(value, maxLength) ==
    IF value = <<>> THEN <<>>
    ELSE LET cleaned == StripEdgeCommas(CollapseCommas(value))
         IN  IF Len(cleaned) > maxLength /\ includes(cleaned, <<",">>)
             THEN LET parts == SplitOn(cleaned, ",")
                      good == {i \in 1..Len(parts) :
                                  /\ trim(parts[i]) # <<>>
                                  /\ Len(trim(parts[i])) >= 3
                                  /\ Len(trim(parts[i])) < maxLength}
                  IN  IF good # {} THEN trim(parts[CHOOSE i \in good : \A j \in good : i <= j])
                      ELSE trim(parts[1])
             ELSE IF Len(cleaned) > maxLength
                  THEN SubSeq(cleaned, 1, maxLength) \o sEllipsis
                  ELSE cleaned

cleanString(value, maxLength) ==
    IF value = <<>> THEN <<>>
    ELSE LET cleaned == StripEdgeCommas(CollapseCommas(value))
         IN  IF Len(cleaned) > maxLength /\ includes(cleaned, <<",">>)
             THEN LET parts == SplitOn(cleaned, ",")
                      good == {i \in 1..Len(parts) :
                                  /\ trim(parts[i]) # <<>>
                                  /\ Len(trim(parts[i])) > 3
                                  /\ Len(trim(parts[i])) < maxLength}
                  IN  IF good # {} THEN trim(parts[CHOOSE i \in good : \A j \in good : i <= j])
                      ELSE trim(parts[1])
             ELSE IF Len(cleaned) > maxLength
                  THEN SubSeq(cleaned, 1, maxLength) \o sEllipsis
                  ELSE cleaned

\* String.prototype.replace(",", "."): the first comma only
ReplaceFirstComma(s) ==
    LET at == IndexOf(s, ",", 1)
    IN  IF at = 0 THEN s ELSE [i \in 1..Len(s) |-> IF i = at THEN "." ELSE s[i]]

\* parseFloat(...) || 0 and parseInt(...) || 0
OrZero(v) == IF IsNaN(v) THEN 0 ELSE v.n

\* parseInt of a string of digits
parseInt(s) == IF s = <<>> THEN JsNaN ELSE JsNum(IntOfDigits(DigitPrefix(s)) * Scale)

\* a || b on strings
OrElse(a, b) == IF a # <<>> THEN a ELSE b

aLockLat == <<"L", "O", "C", "K", " ", "L", "A", "T">>
aLatitude == <<"L", "a", "t", "i", "t", "u", "d", "e">>
aLAT == <<"L", "A", "T">>
aLockLatMixed == <<"L", "o", "c", "k", " ", "L", "a", "t">>
aLockLong == <<"L", "O", "C", "K", " ", "L", "O", "N", "G">>
aLockLon == <<"L", "O", "C", "K", " ", "L", "O", "N">>
aLongitude == <<"L", "o", "n", "g", "i", "t", "u", "d", "e">>
aLONG == <<"L", "O", "N", "G">>
aLON == <<"L", "O", "N">>
aLockLongMixed == <<"L", "o", "c", "k", " ", "L", "o", "n", "g">>
aNamaLokasi == <<"N", "a", "m", "a", " ", "L", "o", "k", "a", "s", "i">>
aNAMALOKASI == <<"N", "A", "M", "A", " ", "L", "O", "K", "A", "S", "I">>
aLocation == <<"L", "o", "c", "a", "t", "i", "o", "n">>
aLOKASI == <<"L", "O", "K", "A", "S", "I">>
aTegangan == <<"T", "e", "g", "a", "n", "g", "a", "n">>
aTEGANGAN == <<"T", "E", "G", "A", "N", "G", "A", "N">>
aVoltage == <<"V", "o", "l", "t", "a", "g", "e">>
aKV == <<"K", "V">>
aTIPE == <<"T", "I", "P", "E">>
aTIPETOWER == <<"T", "I", "P", "E", " ", "T", "O", "W", "E", "R">>
aType == <<"T", "y", "p", "e">>
aTowerType == <<"T", "o", "w", "e", "r", " ", "T", "y", "p", "e">>
aUnit == <<"U", "n", "i", "t">>
aUNIT == <<"U", "N", "I", "T">>
aUnitName == <<"U", "n", "i", "t", " ", "N", "a", "m", "e">>
aNo == <<"N", "o">>
aGarduInduk == <<"G", "a", "r", "d", "u", " ", "I", "n", "d", "u", "k">>
aGARDUINDUK == <<"G", "A", "R", "D", "U", " ", "I", "N", "D", "U", "K">>
aSubstation == <<"S", "u", "b", "s", "t", "a", "t", "i", "o", "n">>
aGI == <<"G", "I">>
aKOTAKAB == <<"K", "O", "T", "A", "/", "K", "A", "B">>
aKOTA == <<"K", "O", "T", "A">>
aRegion == <<"R", "e", "g", "i", "o", "n">>
aWilayah == <<"W", "i", "l", "a", "y", "a", "h">>
aKAB == <<"K", "A", "B">>
aKABUPATEN == <<"K", "A", "B", "U", "P", "A", "T", "E", "N">>
aStatusOperasi == <<"S", "t", "a", "t", "u", "s", " ", "O", "p", "e", "r", "a", "s", "i">>
aSTATUS == <<"S", "T", "A", "T", "U", "S">>
aStatus == <<"S", "t", "a", "t", "u", "s">>
aOperasi == <<"O", "p", "e", "r", "a", "s", "i">>
aIdFunctloc == <<"I", "d", "F", "u", "n", "c", "t", "l", "o", "c">>
aFUNCTLOC == <<"F", "U", "N", "C", "T", "L", "O", "C">>
aID == <<"I", "D">>
aFunctloc == <<"F", "u", "n", "c", "t", "l", "o", "c">>

LatNames == <<aLockLat, aLatitude, aLAT, aLockLatMixed>>
LngNames == <<aLockLong, aLockLon, aLongitude, aLONG, aLON, aLockLongMixed>>
LocationNames == <<aNamaLokasi, aNAMALOKASI, aLocation, aLOKASI>>
VoltageNames == <<aTegangan, aTEGANGAN, aVoltage, aKV>>
TowerTypeNames == <<aTIPE, aTIPETOWER, aType, aTowerType>>
UnitNames == <<aUnit, aUNIT, aUnitName, aNo>>
SubstationNames == <<aGarduInduk, aGARDUINDUK, aSubstation, aGI>>
RegionNames == <<aKOTAKAB, aKOTA, aRegion, aWilayah, aKAB, aKABUPATEN>>
StatusNames == <<aStatusOperasi, aSTATUS, aStatus, aOperasi>>
FunctlocNames == <<aIdFunctloc, aFUNCTLOC, aID, aFunctloc>>

sTowerDash == <<"t", "o", "w", "e", "r", "-">>
sUnknownUnit == <<"U", "n", "k", "n", "o", "w", "n", " ", "U", "n", "i", "t">>
sUnknownLocation ==
    <<"U", "n", "k", "n", "o", "w", "n", " ", "L", "o", "c", "a", "t", "i", "o", "n">>
sUnknownSubstation ==
    <<"U", "n", "k", "n", "o", "w", "n", " ", "S", "u", "b", "s", "t", "a", "t", "i", "o", "n">>
sUnknownRegion == <<"U", "n", "k", "n", "o", "w", "n", " ", "R", "e", "g", "i", "o", "n">>
sUnknownStatus == <<"U", "n", "k", "n", "o", "w", "n", " ", "S", "t", "a", "t", "u", "s">>

\* the first filter: latitude, longitude and location are all found
HasValidData(row) ==
    /\ findColumnValue(row, LatNames) # <<>>
    /\ findColumnValue(row, LngNames) # <<>>
    /\ findColumnValue(row, LocationNames) # <<>>

\* the record of a row; index counts the rows that passed the first filter from 0
TowerOf(row, index) ==
    [id |-> OrElse(findColumnValue(row, FunctlocNames), sTowerDash \o DigitsOfNat(index)),
     unitName |-> cleanString(OrElse(findColumnValue(row, UnitNames), sUnknownUnit),
                              DefaultMaxLength),
     latitude |-> OrZero(parseFloat(ReplaceFirstComma(findColumnValue(row, LatNames)))),
     longitude |-> OrZero(parseFloat(ReplaceFirstComma(findColumnValue(row, LngNames)))),
     towerType |-> cleanString(OrElse(findColumnValue(row, TowerTypeNames), sUnknown),
                               DefaultMaxLength),
     voltage |-> OrZero(parseInt(SelectSeq(findColumnValue(row, VoltageNames),
                                           LAMBDA c : c \in Digits))),
     operationYear |-> 0,
     locationName |-> cleanString(OrElse(findColumnValue(row, LocationNames), sUnknownLocation),
                                  DefaultMaxLength),
     substation |-> cleanString(OrElse(findColumnValue(row, SubstationNames), sUnknownSubstation),
                                SubstationMaxLength),
     region |-> cleanString(OrElse(findColumnValue(row, RegionNames), sUnknownRegion),
                            DefaultMaxLength),
     status |-> cleanString(OrElse(findColumnValue(row, StatusNames), sUnknownStatus),
                            DefaultMaxLength)]

Abs(k) == IF k < 0 THEN -k ELSE k

IsValidCoords_noSentinel(tower) ==
    /\ tower.latitude >= -90 * Scale /\ tower.latitude <= 90 * Scale
    /\ tower.longitude >= -180 * Scale /\ tower.longitude <= 180 * Scale

\* the second filter: the coordinates are away from 0 and within range
IsValidCoords(tower) ==
    /\ tower.latitude # 0 /\ tower.longitude # 0
    /\ Abs(tower.latitude) * 10 > Scale /\ Abs(tower.longitude) * 10 > Scale
    /\ tower.latitude >= -90 * Scale /\ tower.latitude <= 90 * Scale
    /\ tower.longitude >= -180 * Scale /\ tower.longitude <= 180 * Scale

processExcelData(raw) ==
    LET withData == SelectSeq(raw, HasValidData)
        mapped == [i \in 1..Len(withData) |-> TowerOf(withData[i], i - 1)]
    IN  SelectSeq(mapped, IsValidCoords)

----------------------------------------------------------------------------
(* parseCSVData: the rows of a CSV export *)

\* h.trim().replace(/"/g, "")
CleanCell(s) == RemoveChars(trim(s), {"\""})

\* values[index] || ""
CellAt(cells, n) == IF n <= Len(cells) THEN cells[n] ELSE <<>>

RowOfLine(headers, cells) ==
    LET RECURSIVE Build(_)
        Build(n) ==
            IF n = 0 THEN <<>>
            ELSE Put(Build(n - 1), headers[n], JsStr(CellAt(cells, n)))
    IN  Build(Len(headers))

parseCSVData(csvText) ==
    LET lines == SelectSeq(SplitOn(csvText, "\n"), LAMBDA line : trim(line) # <<>>)
    IN  IF Len(lines) < 2 THEN <<>>
        ELSE LET firstLine == lines[1]
                 separator == IF includes(firstLine, <<"\t">>) THEN "\t" ELSE ","
                 CellsOf(line) ==
                     LET raw == SplitOn(line, separator)
                     IN  [n \in 1..Len(raw) |-> CleanCell(raw[n])]
                 headers == CellsOf(firstLine)
             IN  [n \in 1..(Len(lines) - 1) |-> RowOfLine(headers, CellsOf(lines[n + 1]))]

----------------------------------------------------------------------------
(* The cells and the column names the checks draw from *)

sA == <<"A">>
sB == <<"B">>
sDollar100 == <<"$", "1", "0", "0", ".", "0", "0">>
s7point5 == <<"7", ".", "5">>

\* what a cell of a sheet may hold
CellPool ==
    {JsNull, JsUndefined, JsStr(<<>>), JsStr(NotAvailable),
     JsStr(sA), JsStr(sB), JsStr(sDollar100), JsStr(s7point5), JsNum(10 * Scale)}

nNotes == <<"N", "o", "t", "e", "s">>
nStatusOperasi == <<"S", "t", "a", "t", "u", "s", " ", "O", "p", "e", "r", "a", "s", "i">>
nTOTAL == <<"T", "O", "T", "A", "L">>
nPrice == <<"P", "r", "i", "c", "e">>
nTypeCost == <<"T", "y", "p", "e", " ", "C", "o", "s", "t">>
nNameCount == <<"N", "a", "m", "e", " ", "C", "o", "u", "n", "t">>

NamePool == {nNotes, nStatusOperasi, nTOTAL, nPrice, nTypeCost, nNameCount}

SeqsUpTo(S, n) == UNION {[1..k -> S] : k \in 0..n}

----------------------------------------------------------------------------
(* SpecClassify: analyzeField applied to one column *)

NoResult == JsUndefined

ClassifyIdle == values = <<>> /\ fieldName = <<>> /\ fieldInfo = NoResult

FileIdle == rawData = <<>> /\ fileData = NoResult
LookupIdle == lookupRow = <<>> /\ lookupNames = <<>> /\ lookupResult = NoResult
TowerIdle == csvRows = <<>> /\ towerData = NoResult
UnitIdle ==
    /\ cleanInput = <<>> /\ cleanLimit = 0 /\ cleanOutput = <<>>
    /\ markerVoltage = 0 /\ markerColor = "" /\ markerSize = 0

NoText == [text |-> "", name |-> <<>>, a |-> 0, b |-> 0, cause |-> ""]

\* no page is mounted while a pure call is checked
PageIdle ==
    /\ view = "none" /\ configured = FALSE /\ mounted = FALSE
    /\ isLoading = FALSE /\ error = NoText /\ loadingProgress = NoText
    /\ files = <<>> /\ towers = <<>>
    /\ pc = "idle" /\ excelFiles = <<>> /\ fileIndex = 0
    /\ processedFiles = <<>> /\ allTowers = <<>>
    /\ attempted = <<>> /\ outcomes = <<>> /\ batchEnd = "none"

InitClassify ==
    /\ values \in SeqsUpTo(CellPool, MaxValues)
    /\ fieldName \in NamePool
    /\ fieldInfo = NoResult
    /\ phase = "input"
    /\ FileIdle /\ LookupIdle /\ TowerIdle /\ UnitIdle /\ PageIdle

CallAnalyzeField ==
    /\ phase = "input"
    /\ fieldInfo' = analyzeField(values, fieldName)
    /\ phase' = "done"
    /\ UNCHANGED <<values, fieldName, fileVars, lookupVars, towerVars, unitVars, pageVars>>

NextClassify == CallAnalyzeField

SpecClassify == InitClassify /\ [][NextClassify]_vars

Classified == phase = "done" /\ fieldName # <<>>

\* C1: the descriptor analyzeField returns never has isMetric and isDimension
\* both true
C1_RolesExclusive ==
    Classified => ~(fieldInfo.isMetric /\ fieldInfo.isDimension)

\* a column of numbers under a name that forces a dimension: the statistical
\* pass made it a metric and override A turned it into a dimension
C1_Witness ==
    /\ Classified
    /\ HasKeyword(fieldName, DimensionKeywords)
    /\ ~HasKeyword(fieldName, MetricKeywords)
    /\ \E i \in 1..Len(values) : values[i].t = "number"
    /\ fieldInfo.isDimension /\ ~fieldInfo.isMetric

AllEmpty(vals) ==
    \A i \in 1..Len(vals) :
        vals[i] \in {JsNull, JsUndefined, JsStr(<<>>), JsStr(NotAvailable)}

\* C7: analyzeField returns a descriptor for every column, and for a column of
\* only null, undefined, "" and "N/A" it returns text with no role, zero unique
\* values and no samples, whatever the name
C7_EmptyColumnIsText ==
    Classified =>
        /\ fieldInfo.name = fieldName
        /\ fieldInfo.type \in {"number", "currency", "category", "text"}
        /\ fieldInfo.isMetric \in BOOLEAN /\ fieldInfo.isDimension \in BOOLEAN
        /\ AllEmpty(values) =>
              /\ fieldInfo.type = "text"
              /\ ~fieldInfo.isMetric /\ ~fieldInfo.isDimension
              /\ fieldInfo.uniqueValues = 0
              /\ fieldInfo.sampleValues = <<>>

\* a column of three empty values under a name with a dimension keyword
C7_Witness ==
    /\ Classified
    /\ Len(values) = 3 /\ AllEmpty(values)
    /\ values[1] = JsNull /\ values[2] = JsStr(NotAvailable) /\ values[3] = JsStr(<<>>)
    /\ HasKeyword(fieldName, DimensionKeywords)
    /\ fieldInfo.type = "text"

HasNumericValue(vals) == Len(numericValuesOf(nonNullValuesOf(vals))) > 0

\* C10: a name with both a dimension and a metric keyword, over a column with a
\* numeric value, ends as a metric: currency for price or cost, else number
C10_MetricOverrideWins ==
    ( /\ Classified
      /\ HasKeyword(fieldName, DimensionKeywords)
      /\ HasKeyword(fieldName, MetricKeywords)
      /\ HasNumericValue(values) ) =>
        /\ fieldInfo.isMetric /\ ~fieldInfo.isDimension
        /\ fieldInfo.type = IF HasKeyword(fieldName, MoneyKeywords) THEN "currency" ELSE "number"

\* "Name Count" over a column with one number among text: a number metric
C10_Witness ==
    /\ Classified
    /\ fieldName = nNameCount
    /\ values = <<JsStr(sA), JsStr(sB), JsNum(10 * Scale)>>
    /\ fieldInfo.type = "number" /\ fieldInfo.isMetric

----------------------------------------------------------------------------
(* SpecFile: processFileData applied to the rows of one sheet *)

nRegion == <<"R", "e", "g", "i", "o", "n">>
nAmt == <<"A", "m", "t">>
idFile1 == <<"f", "1">>
nmFile1 == <<"f", "1", ".", "x", "l", "s", "x">>

\* sequences of distinct elements of S, of length lo..hi
InjectiveSeqs(S, lo, hi) ==
    {q \in UNION {[1..k -> S] : k \in lo..hi} : \A i, j \in 1..Len(q) : i # j => q[i] # q[j]}

\* sheets of one or two columns, every combination of cells
SmallSheets ==
    {[headers |-> h, rows |-> r] :
        h \in InjectiveSeqs({nRegion, nAmt, nStatusOperasi}, 1, 2),
        r \in UNION {[1..k -> [1..2 -> {JsUndefined, JsStr(sA), JsStr(sB),
                                       JsNum(10 * Scale), JsNum(30 * Scale)}]] : k \in 1..MaxRows}}

\* sheets of three or four columns whose names force a role, one row
WideSheets ==
    {[headers |-> h, rows |-> <<r>>] :
        h \in InjectiveSeqs({nStatusOperasi, nNameCount, nTOTAL, nPrice}, 3, 4),
        r \in [1..4 -> {JsStr(sA), JsNum(10 * Scale)}]}

GroupNames == <<"a", "b", "c", "d", "e", "f", "g", "h", "i", "j", "k", "l", "m", "n">>

\* sheets of n rows spread over m groups, the amounts following a pattern
BigSheets ==
    {[headers |-> <<nRegion, nAmt>>,
      rows |-> [i \in 1..n |-> << JsStr(<<GroupNames[((i - 1) % m) + 1]>>),
                                  JsNum(((i * seed) % 7) * Scale + (i % 2) * 50) >>]] :
        n \in 1..MaxBigRows, m \in 1..MaxBigRows, seed \in 1..3}

\* three rows of amounts 10, 30 and 5 whose regions are texts, zeros or empty
KeyedSheets ==
    {[headers |-> <<nRegion, nAmt>>,
      rows |-> << <<r[1], JsNum(10 * Scale)>>, <<r[2], JsNum(30 * Scale)>>,
                  <<r[3], JsNum(5 * Scale)>> >>] :
        r \in [1..3 -> {JsUndefined, JsStr(<<>>), JsStr(sA), JsStr(sB), JsStr(<<"0">>), JsNum(0)}]}

s5kg == <<"5", "k", "g">>
s12percent == <<"1", "2", "%">>
sAbc == <<"a", "b", "c">>

\* three rows of regions A, B, A whose totals are numbers, texts with a unit or
\* a sign, plain texts or nothing
MeasureSheets ==
    {[headers |-> <<nRegion, nTOTAL>>,
      rows |-> << <<JsStr(sA), c[1]>>, <<JsStr(sB), c[2]>>, <<JsStr(sA), c[3]>> >>] :
        c \in [1..3 -> {JsUndefined, JsNum(10 * Scale), JsStr(s5kg), JsStr(s12percent),
                        JsStr(sAbc), JsStr(sDollar100)}]}

\* one to three rows of a region and a dollar amount of two decimals
PriceSheets ==
    {[headers |-> <<nRegion, nAmt>>,
      rows |-> [i \in 1..k |-> <<JsStr(IF i = 2 THEN sB ELSE sA), c[i]>>]] :
        k \in 1..3,
        c \in [1..3 -> {JsStr(sDollar100), JsStr(<<"$", "2", "5", "0", ".", "5", "0">>),
                        JsStr(<<"$", "7", "5", ".", "2", "5">>)}]}

InitFile ==
    /\ \E sheet \in SmallSheets \cup WideSheets \cup BigSheets \cup KeyedSheets
                     \cup MeasureSheets \cup PriceSheets :
          rawData = FormatRows(sheet.headers, sheet.rows)
    /\ fileData = NoResult
    /\ phase = "input"
    /\ ClassifyIdle /\ LookupIdle /\ TowerIdle /\ UnitIdle /\ PageIdle

CallProcessFileData ==
    /\ phase = "input"
    /\ fileData' = processFileData(rawData, nmFile1, idFile1)
    /\ phase' = "done"
    /\ UNCHANGED <<rawData, classifyVars, lookupVars, towerVars, unitVars, pageVars>>

NextFile == CallProcessFileData

SpecFile == InitFile /\ [][NextFile]_vars

Processed == phase = "done" /\ rawData # <<>>

HasChart == Processed /\ fileData.chart # JsNull

Metrics(fields) == {i \in 1..Len(fields) : fields[i].isMetric}
Dimensions(fields) == {i \in 1..Len(fields) : fields[i].isDimension}
Least(S) == CHOOSE i \in S : \A j \in S : i <= j

\* C3: the chart is null exactly when no field is a metric or no field is a
\* dimension; otherwise it is built on the first metric and the first
\* dimension in column order
C3_FirstMetricFirstDimension ==
    Processed =>
        LET f == fileData.fields
        IN  /\ (fileData.chart = JsNull) <=> (Metrics(f) = {} \/ Dimensions(f) = {})
            /\ fileData.chart # JsNull =>
                  /\ fileData.chart.yAxis = f[Least(Metrics(f))].name
                  /\ fileData.chart.xAxis = f[Least(Dimensions(f))].name

\* two metrics and two dimensions, neither role starting the column list in
\* the order metric, dimension
C3_Witness ==
    /\ HasChart
    /\ Cardinality(Metrics(fileData.fields)) = 2
    /\ Cardinality(Dimensions(fileData.fields)) = 2
    /\ Least(Dimensions(fileData.fields)) = 1
    /\ Least(Metrics(fileData.fields)) = 3

\* the groups of the chart's rows and their sums, from the rows themselves
GroupsOf(fd) == {CategoryOf(fd.data[i], fd.chart.xAxis) : i \in 1..Len(fd.data)}

RECURSIVE SumOver(_, _, _)
SumOver(fd, cat, n) ==
    IF n = 0 THEN 0
    ELSE SumOver(fd, cat, n - 1)
         + (IF CategoryOf(fd.data[n], fd.chart.xAxis) = cat
            THEN MetricValueOf(fd.data[n], fd.chart.yAxis) ELSE 0)

GroupSum(fd, cat) == SumOver(fd, cat, Len(fd.data))

RECURSIVE SumOfGroups(_, _)
SumOfGroups(fd, cats) ==
    IF cats = {} THEN 0
    ELSE LET c == CHOOSE x \in cats : TRUE
         IN  GroupSum(fd, c) + SumOfGroups(fd, cats \ {c})

RECURSIVE SumOfPoints(_)
SumOfPoints(points) ==
    IF points = <<>> THEN 0 ELSE points[1].value + SumOfPoints(Tail(points))

Min2(a, b) == IF a < b THEN a ELSE b

\* C4: the points are in non-increasing order of value, no two share a
\* category, there are min(10, number of groups) of them, and every group left
\* out has a value no greater than every point kept
C4_SortedTopTen ==
    HasChart =>
        LET pts == fileData.chart.data
            kept == {pts[i].category : i \in 1..Len(pts)}
        IN  /\ \A i, j \in 1..Len(pts) : i < j => pts[i].value >= pts[j].value
            /\ \A i, j \in 1..Len(pts) : i # j => pts[i].category # pts[j].category
            /\ kept \subseteq GroupsOf(fileData)
            /\ Len(pts) = Min2(10, Cardinality(GroupsOf(fileData)))
            /\ \A c \in GroupsOf(fileData) \ kept :
                  \A i \in 1..Len(pts) : GroupSum(fileData, c) <= pts[i].value

\* more than ten groups, the values not all equal, and a dropped group whose
\* row comes before the row of a kept one
C4_Witness ==
    /\ HasChart
    /\ Cardinality(GroupsOf(fileData)) > 10
    /\ Len(fileData.chart.data) = 10
    /\ fileData.chart.data[1].value > fileData.chart.data[10].value
    /\ \E r1, r2 \in 1..Len(fileData.data) :
          /\ r1 < r2
          /\ CategoryOf(fileData.data[r1], fileData.chart.xAxis)
                \notin {fileData.chart.data[i].category : i \in 1..10}
          /\ CategoryOf(fileData.data[r2], fileData.chart.xAxis)
                \in {fileData.chart.data[i].category : i \in 1..10}

\* C5: dataTotal is the sum over all groups, the dropped ones included; with at
\* most ten groups it is the sum of the point values
C5_TotalOverAllGroups ==
    HasChart =>
        /\ fileData.chart.dataTotal = SumOfGroups(fileData, GroupsOf(fileData))
        /\ Cardinality(GroupsOf(fileData)) <= 10 =>
              fileData.chart.dataTotal = SumOfPoints(fileData.chart.data)

\* more than ten groups and a total larger than the sum of the bars shown
C5_Witness ==
    /\ HasChart
    /\ Cardinality(GroupsOf(fileData)) > 10
    /\ fileData.chart.dataTotal > SumOfPoints(fileData.chart.data)
    /\ fileData.chart.dataTotal = SumOfGroups(fileData, GroupsOf(fileData))

----------------------------------------------------------------------------
(* SpecLookup: findColumnValue applied to one row of a CSV export *)

kLat == <<"l", "a", "t">>
kLatLon == <<"L", "A", "T", "/", "L", "O", "N">>
kKet == <<"K", "e", "t">>
sBlank == <<" ">>
sSpace5 == <<" ", "5">>
sMinus6Comma2 == <<"-", "6", ",", "2">>
sSite == <<"S", "i", "t", "e">>

\* the headers of the rows: exact names, overlapping names, the empty header
\* and a name that overlaps no alias
LookupKeys == {aLockLat, aLAT, kLat, kLatLon, aLOKASI, <<>>, kKet}

\* the cells of the rows: empty, blank, padded and plain
LookupCells == {JsStr(<<>>), JsStr(sBlank), JsStr(sSpace5), JsStr(sMinus6Comma2)}

LookupRows ==
    {[i \in 1..Len(h) |-> [k |-> h[i], v |-> c[i]]] :
        h \in InjectiveSeqs(LookupKeys, 0, MaxKeys), c \in [1..MaxKeys -> LookupCells]}

InitLookup ==
    /\ lookupRow \in LookupRows
    /\ lookupNames \in {LatNames, LngNames, LocationNames, UnitNames}
    /\ lookupResult = NoResult
    /\ phase = "input"
    /\ ClassifyIdle /\ FileIdle /\ TowerIdle /\ UnitIdle /\ PageIdle

CallFindColumnValue ==
    /\ phase = "input"
    /\ lookupResult' = findColumnValue(lookupRow, lookupNames)
    /\ phase' = "done"
    /\ UNCHANGED <<lookupRow, lookupNames, classifyVars, fileVars, towerVars, unitVars, pageVars>>

NextLookup == CallFindColumnValue

SpecLookup == InitLookup /\ [][NextLookup]_vars

LookedUp == phase = "done" /\ lookupNames # <<>>

OverlapsAlias(key, names) == \E i \in 1..Len(names) : Overlaps(key, names[i])

\* C6 as stated: the result is "" or is verbatim the cell of a key that
\* overlaps an alias
C6_VerbatimCell ==
    LookedUp =>
        \/ lookupResult = <<>>
        \/ \E j \in 1..Len(lookupRow) :
              /\ lookupRow[j].v = JsStr(lookupResult)
              /\ OverlapsAlias(lookupRow[j].k, lookupNames)

\* C6, amended: the result is "" or is the trimmed, non-blank cell of a key
\* that overlaps an alias
C6_TrimmedCell ==
    LookedUp =>
        \/ lookupResult = <<>>
        \/ \E j \in 1..Len(lookupRow) :
              /\ lookupRow[j].v.t = "string"
              /\ trim(lookupRow[j].v.s) = lookupResult
              /\ lookupResult # <<>>
              /\ OverlapsAlias(lookupRow[j].k, lookupNames)

\* a padded cell found through an overlapping name, next to a cell whose key
\* overlaps no alias
C6_Witness ==
    /\ LookedUp
    /\ lookupNames = LatNames
    /\ Len(lookupRow) = 2
    /\ lookupRow[1].k = kKet /\ lookupRow[1].v = JsStr(sMinus6Comma2)
    /\ lookupRow[2].k = kLatLon /\ lookupRow[2].v = JsStr(sSpace5)
    /\ lookupResult = <<"5">>

----------------------------------------------------------------------------
(* SpecTowers: processExcelData applied to the rows of one CSV export *)

kLatitudeLower == <<"l", "a", "t", "i", "t", "u", "d", "e">>
kLongitudeLower == <<"l", "o", "n", "g", "i", "t", "u", "d", "e">>
kLokasiLower == <<"l", "o", "k", "a", "s", "i">>

\* the headers of an export: exact names, overlapping names, and exact names
\* followed by a voltage and a status column
TowerHeaders ==
    {<<aLockLat, aLockLong, aNamaLokasi>>,
     <<kLatitudeLower, kLongitudeLower, kLokasiLower>>,
     <<aLockLat, aLockLong, aNamaLokasi, aTegangan, aStatusOperasi>>}

LatCells ==
    {<<>>, <<"0">>, <<"0", ".", "0", "5">>, <<"0", ".", "1">>, <<"0", ".", "1", "1">>,
     <<"-", "6", ".", "2">>, sMinus6Comma2, <<"9", "0">>, <<"9", "0", ".", "0", "1">>,
     <<"-", "9", "0", ".", "0", "1">>, <<"a", "b", "c">>}

LngCells ==
    {<<>>, <<"0">>, <<"0", ".", "1">>, <<"-", "0", ".", "1", "1">>,
     <<"1", "0", "7", ".", "5">>, <<"1", "8", "0">>, <<"1", "8", "0", ".", "0", "1">>,
     <<"-", "1", "8", "1">>, <<"x">>}

s150kV == <<"1", "5", "0", " ", "k", "V">>
sOperasi == <<"O", "p", "e", "r", "a", "s", "i">>

CsvRow(h, lat, lng, loc) ==
    [i \in 1..Len(h) |->
        [k |-> h[i],
         v |-> CASE i = 1 -> JsStr(lat) [] i = 2 -> JsStr(lng) [] i = 3 -> JsStr(loc)
                 [] i = 4 -> JsStr(s150kV) [] OTHER -> JsStr(sOperasi)]]

\* every combination of coordinates, in one row
SingleRows ==
    {<<CsvRow(h, lat, lng, loc)>> :
        h \in TowerHeaders, lat \in LatCells, lng \in LngCells, loc \in {<<>>, sSite}}

\* exports of several rows: kept, dropped for a zero, dropped for no location
SeveralRows ==
    UNION {[1..k -> {CsvRow(<<aLockLat, aLockLong, aNamaLokasi>>, p[1], p[2], p[3]) :
                        p \in {<<sMinus6Comma2, <<"1", "0", "7", ".", "5">>, sSite>>,
                               <<<<"0">>, <<"1", "0", "7", ".", "5">>, sSite>>,
                               <<<<"9", "0">>, <<"1", "8", "0">>, <<>> >>,
                               <<<<"9", "0">>, <<"-", "0", ".", "1", "1">>, sSite>>}}] :
           k \in 2..MaxCsvRows}

InitTowers ==
    /\ csvRows \in SingleRows \cup SeveralRows
    /\ towerData = NoResult
    /\ phase = "input"
    /\ ClassifyIdle /\ FileIdle /\ LookupIdle /\ UnitIdle /\ PageIdle

CallProcessExcelData ==
    /\ phase = "input"
    /\ towerData' = processExcelData(csvRows)
    /\ phase' = "done"
    /\ UNCHANGED <<csvRows, classifyVars, fileVars, lookupVars, unitVars, pageVars>>

NextTowers == CallProcessExcelData

SpecTowers == InitTowers /\ [][NextTowers]_vars

TowersDone == phase = "done" /\ csvRows # <<>>

\* C2: every record processExcelData returns has its latitude in [-90, 90], its
\* longitude in [-180, 180] and both further than 0.1 from 0
C2_CoordinatesValid ==
    TowersDone =>
        \A i \in 1..Len(towerData) :
            /\ towerData[i].latitude >= -90 * Scale /\ towerData[i].latitude <= 90 * Scale
            /\ towerData[i].longitude >= -180 * Scale /\ towerData[i].longitude <= 180 * Scale
            /\ Abs(towerData[i].latitude) * 10 > Scale
            /\ Abs(towerData[i].longitude) * 10 > Scale

\* two rows with a location: the one with latitude "0" is dropped, the other
\* is kept
C2_Witness ==
    /\ TowersDone
    /\ Len(csvRows) = 2
    /\ csvRows[1][1].v = JsStr(<<"0">>) /\ csvRows[1][3].v = JsStr(sSite)
    /\ csvRows[2][1].v = JsStr(sMinus6Comma2)
    /\ Len(towerData) = 1
    /\ towerData[1].latitude = -620 /\ towerData[1].longitude = 10750

----------------------------------------------------------------------------
(* The page: fetchGoogleDriveFiles of the dashboard and of the tower map *)

\* a message shown on the page: its template, the file it names, its counts
Msg(template) == [text |-> template, name |-> <<>>, a |-> 0, b |-> 0, cause |-> ""]

ProcessingFile(file) ==
    [text |-> "Processing ${fileName}...", name |-> file.name, a |-> 0, b |-> 0, cause |-> ""]

sNoTowers == "No valid tower data found in Excel files."
sNoneProcessed == "No files could be processed successfully. Check file formats and permissions."
sSomeFailed == "${successfulFiles.length} files processed successfully. ${failedFiles.length} files failed to process."
sNoFiles == "No Excel files found in the specified folder"

\* the files a folder may list
FilePool ==
    {[id |-> <<"f", "1">>, name |-> <<"f", "1", ".", "x", "l", "s", "x">>],
     [id |-> <<"f", "2">>, name |-> <<"f", "2", ".", "x", "l", "s", "x">>],
     [id |-> <<"f", "3">>, name |-> <<"f", "3", ".", "x", "l", "s">>]}

Listings == InjectiveSeqs(FilePool, 0, MaxFiles)

\* what sheet_to_json with header: 1 may give: an empty sheet, a header alone,
\* a sheet that charts, a sheet of text, a sheet of one cell
JsonPool ==
    {<<>>,
     <<<<JsStr(nRegion), JsStr(nAmt)>>>>,
     <<<<JsStr(nRegion), JsStr(nAmt)>>,
       <<JsStr(sA), JsNum(10 * Scale)>>,
       <<JsStr(sB), JsNum(30 * Scale)>>,
       <<JsStr(sA), JsNum(5 * Scale)>>>>,
     <<<<JsStr(nNotes)>>, <<JsStr(sA)>>, <<JsStr(sB)>>>>,
     <<<<JsStr(nRegion), JsStr(nAmt)>>, <<JsStr(sB)>>>>}

CsvHeader == aLockLat \o <<",">> \o aLockLong \o <<",">> \o aNamaLokasi

\* what the CSV export may hold: a header alone, one tower, a tower and a row
\* without coordinates, two towers
CsvPool ==
    {CsvHeader,
     CsvHeader \o <<"\n", "-", "6", ".", "2", ",", "1", "0", "7", ".", "5", ",">> \o sSite,
     CsvHeader \o <<"\n", "0", ",", "0", ",">> \o sSite
               \o <<"\n", "-", "7", ",", "1", "1", "0", ",", "B">>,
     CsvHeader \o <<"\n", "-", "6", ",", "1", "0", "6", ",", "A">>
               \o <<"\n", "-", "7", ".", "5", ",", "1", "1", "2", ",", "B">>}

NoJson == <<>>
NoCsv == <<>>

\* the ways a download ends: the fetch rejects, answers not ok, answers a body
\* XLSX.read throws on, or answers a body that parses
DownloadOutcomes(v) ==
    {[kind |-> k, json |-> NoJson, csv |-> NoCsv] :
        k \in IF v = "dashboard" THEN {"reject", "notok", "unreadable"} ELSE {"reject", "notok"}}
    \cup (IF v = "dashboard"
          THEN {[kind |-> "ok", json |-> j, csv |-> NoCsv] : j \in JsonPool}
          ELSE {[kind |-> "ok", json |-> NoJson, csv |-> c] : c \in CsvPool})

\* the names of the cells of the header row, as property keys
HeaderKeys(headerRow) == [n \in 1..Len(headerRow) |-> JsToString(headerRow[n])]

FailedFileData(fileId, fileName, message) ==
    [id |-> fileId, name |-> fileName, data |-> <<>>, fields |-> <<>>, chart |-> JsNull,
     totalRows |-> 0, totalColumns |-> 0, error |-> message]

Returned(value) == [threw |-> FALSE, value |-> value]
Thrown(message) == [threw |-> TRUE, value |-> message]

\* the helper without its catch
DashboardDownloadAndParseExcel_rethrows(file, o) ==
    CASE o.kind = "reject" -> Thrown("${error.message}")
      [] o.kind = "notok" -> Thrown("Failed to download ${fileName}: ${status}")
      [] o.kind = "unreadable" -> Thrown("${error.message}")
      [] Len(o.json) < 2 -> Thrown("${fileName} has insufficient data")
      [] OTHER ->
            Returned(processFileData(FormatRows(HeaderKeys(o.json[1]), Tail(o.json)),
                                     file.name, file.id))

\* the helper taking a header alone for a sheet
DashboardDownloadAndParseExcel_headerSuffices(file, o) ==
    CASE o.kind = "reject" ->
            Returned(FailedFileData(file.id, file.name, "${error.message}"))
      [] o.kind = "notok" ->
            Returned(FailedFileData(file.id, file.name,
                                    "Failed to download ${fileName}: ${status}"))
      [] o.kind = "unreadable" ->
            Returned(FailedFileData(file.id, file.name, "${error.message}"))
      [] Len(o.json) < 1 ->
            Returned(FailedFileData(file.id, file.name, "${fileName} has insufficient data"))
      [] OTHER ->
            Returned(processFileData(FormatRows(HeaderKeys(o.json[1]), Tail(o.json)),
                                     file.name, file.id))

\* downloadAndParseExcel of the dashboard: whatever is thrown becomes an entry
DashboardDownloadAndParseExcel(file, o) ==
    CASE o.kind = "reject" ->
            Returned(FailedFileData(file.id, file.name, "${error.message}"))
      [] o.kind = "notok" ->
            Returned(FailedFileData(file.id, file.name,
                                    "Failed to download ${fileName}: ${status}"))
      [] o.kind = "unreadable" ->
            Returned(FailedFileData(file.id, file.name, "${error.message}"))
      [] Len(o.json) < 2 ->
            Returned(FailedFileData(file.id, file.name, "${fileName} has insufficient data"))
      [] OTHER ->
            Returned(processFileData(FormatRows(HeaderKeys(o.json[1]), Tail(o.json)),
                                     file.name, file.id))

\* downloadAndParseExcel of the map: what is thrown is logged and thrown again
MapDownloadAndParseExcel(file, o) ==
    CASE o.kind = "reject" -> Thrown("${error.message}")
      [] o.kind = "notok" -> Thrown("Failed to download ${fileName}: ${status}")
      [] OTHER -> Returned(processExcelData(parseCSVData(o.csv)))

----------------------------------------------------------------------------
(* SpecPage: a page is mounted and loads the folder *)

batchVars == <<pc, excelFiles, fileIndex, processedFiles, allTowers, attempted, outcomes>>

InitPage ==
    /\ view \in {"dashboard", "map"}
    /\ configured \in BOOLEAN
    /\ mounted = FALSE
    /\ isLoading = FALSE /\ error = NoText /\ loadingProgress = NoText
    /\ files = <<>> /\ towers = <<>>
    /\ pc = "idle" /\ excelFiles = <<>> /\ fileIndex = 0
    /\ processedFiles = <<>> /\ allTowers = <<>>
    /\ attempted = <<>> /\ outcomes = <<>> /\ batchEnd = "none"
    /\ phase = "page"
    /\ ClassifyIdle /\ FileIdle /\ LookupIdle /\ TowerIdle /\ UnitIdle

\* fetchGoogleDriveFiles up to its first await
BeginFetch ==
    IF ~configured
    THEN /\ error' = Msg(IF view = "dashboard"
                         THEN "Please provide both API Key and Folder ID"
                         ELSE "API Key and Folder ID must be configured in environment variables")
         /\ batchEnd' = "unconfigured"
         /\ UNCHANGED <<isLoading, loadingProgress, batchVars>>
    ELSE /\ isLoading' = TRUE
         /\ error' = NoText
         /\ loadingProgress' = Msg("Connecting to Google Drive...")
         /\ pc' = "test"
         /\ excelFiles' = <<>> /\ fileIndex' = 0
         /\ processedFiles' = <<>> /\ allTowers' = <<>>
         /\ attempted' = <<>> /\ outcomes' = <<>>
         /\ batchEnd' = "none"

\* the catch without the finally
Catch_withoutFinally(message) ==
    /\ error' = [text |-> "Error: ${error.message}", name |-> <<>>, a |-> 0, b |-> 0,
                 cause |-> message]
    /\ loadingProgress' = NoText
    /\ isLoading' = isLoading
    /\ pc' = "idle"
    /\ batchEnd' = "error"

\* the catch and the finally of fetchGoogleDriveFiles
Catch(message) ==
    /\ error' = [text |-> "Error: ${error.message}", name |-> <<>>, a |-> 0, b |-> 0,
                 cause |-> message]
    /\ loadingProgress' = NoText
    /\ isLoading' = FALSE
    /\ pc' = "idle"
    /\ batchEnd' = "error"

\* the effect that runs when the page is mounted
MountEffect ==
    /\ ~mounted
    /\ mounted' = TRUE
    /\ IF configured
       THEN BeginFetch
       ELSE UNCHANGED <<isLoading, error, loadingProgress, batchVars, batchEnd>>
    /\ UNCHANGED <<view, configured, files, towers, pureVars>>

\* the button never disabled
ClickLoadData_alwaysEnabled ==
    /\ view = "map"
    /\ mounted
    /\ configured
    /\ BeginFetch
    /\ UNCHANGED <<view, configured, mounted, files, towers, pureVars>>

\* the Load Data button of the map, disabled while loading or unconfigured
ClickLoadData ==
    /\ view = "map"
    /\ mounted
    /\ ~(isLoading \/ ~configured)
    /\ BeginFetch
    /\ UNCHANGED <<view, configured, mounted, files, towers, pureVars>>

\* the answer to the test request arrives
TestResponse ==
    /\ pc = "test"
    /\ \E r \in {"ok", "notok", "reject"} :
          IF r = "ok"
          THEN /\ loadingProgress' = Msg("Fetching Excel files list...")
               /\ pc' = "list"
               /\ UNCHANGED <<isLoading, error, batchEnd>>
          ELSE Catch(IF r = "notok" THEN "API Test Failed (${status}): ${message}"
                                    ELSE "${error.message}")
    /\ UNCHANGED <<view, configured, mounted, files, towers, pureVars,
                   excelFiles, fileIndex, processedFiles, allTowers, attempted, outcomes>>

\* the ways the listing request ends
ListOutcomes ==
    {[kind |-> k, files |-> <<>>] : k \in {"reject", "notok", "apierror"}}
    \cup {[kind |-> "ok", files |-> l] : l \in Listings}

\* the answer to the listing request arrives
ListResponse ==
    /\ pc = "list"
    /\ \E r \in ListOutcomes :
          CASE r.kind \in {"reject", "notok"} ->
                  /\ Catch(IF r.kind = "notok" THEN "HTTP ${status}: ${message}"
                                               ELSE "${error.message}")
                  /\ UNCHANGED <<excelFiles, fileIndex, processedFiles, allTowers,
                                 attempted, outcomes>>
            [] r.kind = "apierror" /\ view = "dashboard" ->
                  /\ Catch("API Error: ${result.error.message}")
                  /\ UNCHANGED <<excelFiles, fileIndex, processedFiles, allTowers,
                                 attempted, outcomes>>
            [] OTHER ->
                  IF Len(r.files) = 0
                  THEN /\ error' = Msg(sNoFiles)
                       /\ isLoading' = FALSE
                       /\ pc' = "idle"
                       /\ batchEnd' = "empty"
                       /\ UNCHANGED <<loadingProgress, excelFiles, fileIndex, processedFiles,
                                      allTowers, attempted, outcomes>>
                  ELSE /\ excelFiles' = r.files
                       /\ fileIndex' = 1
                       /\ processedFiles' = <<>> /\ allTowers' = <<>>
                       /\ attempted' = <<r.files[1]>>
                       /\ outcomes' = <<>>
                       /\ loadingProgress' = ProcessingFile(r.files[1])
                       /\ pc' = "download"
                       /\ UNCHANGED <<isLoading, error, batchEnd>>
    /\ UNCHANGED <<view, configured, mounted, files, towers, pureVars>>

\* the error the dashboard shows when its loop has ended
DashboardErrorAfter(entries, before) ==
    LET successfulFiles == SelectSeq(entries, LAMBDA f : Len(f.data) > 0)
        failedFiles == SelectSeq(entries, LAMBDA f : Len(f.data) = 0)
    IN  IF Len(successfulFiles) = 0 THEN Msg(sNoneProcessed)
        ELSE IF Len(failedFiles) > 0
             THEN [text |-> sSomeFailed, name |-> <<>>, a |-> Len(successfulFiles),
                   b |-> Len(failedFiles), cause |-> ""]
             ELSE before

\* what the download of a file gives the loop of the mounted page
DownloadAndParse(file, o) ==
    IF view = "dashboard" THEN DashboardDownloadAndParseExcel(file, o)
    ELSE MapDownloadAndParseExcel(file, o)

\* the end of the loop adding to what was loaded before
EndOfTurn_carriesOver(pushed, spread) ==
    /\ processedFiles' = pushed
    /\ allTowers' = spread
    /\ IF fileIndex < Len(excelFiles)
       THEN /\ fileIndex' = fileIndex + 1
            /\ attempted' = Append(attempted, excelFiles[fileIndex + 1])
            /\ loadingProgress' = ProcessingFile(excelFiles[fileIndex + 1])
            /\ UNCHANGED <<files, towers, isLoading, error, pc, batchEnd>>
       ELSE /\ files' = IF view = "dashboard" THEN files \o pushed ELSE files
            /\ towers' = IF view = "map" THEN towers \o spread ELSE towers
            /\ loadingProgress' = NoText
            /\ error' = IF view = "dashboard" THEN DashboardErrorAfter(pushed, error)
                        ELSE IF Len(spread) = 0 THEN Msg(sNoTowers)
                        ELSE error
            /\ isLoading' = FALSE
            /\ pc' = "idle"
            /\ batchEnd' = "complete"
            /\ UNCHANGED <<fileIndex, attempted>>

\* the rest of the loop's turn once the file is pushed or spread, and either
\* the next turn up to its await or the end of the call
EndOfTurn(pushed, spread) ==
    /\ processedFiles' = pushed
    /\ allTowers' = spread
    /\ IF fileIndex < Len(excelFiles)
       THEN /\ fileIndex' = fileIndex + 1
            /\ attempted' = Append(attempted, excelFiles[fileIndex + 1])
            /\ loadingProgress' = ProcessingFile(excelFiles[fileIndex + 1])
            /\ UNCHANGED <<files, towers, isLoading, error, pc, batchEnd>>
       ELSE /\ files' = IF view = "dashboard" THEN pushed ELSE files
            /\ towers' = IF view = "map" THEN spread ELSE towers
            /\ loadingProgress' = NoText
            /\ error' = IF view = "dashboard" THEN DashboardErrorAfter(pushed, error)
                        ELSE IF Len(spread) = 0 THEN Msg(sNoTowers)
                        ELSE error
            /\ isLoading' = FALSE
            /\ pc' = "idle"
            /\ batchEnd' = "complete"
            /\ UNCHANGED <<fileIndex, attempted>>

\* the loop's turn from the answer r of downloadAndParseExcel: only the loop
\* of the map has a try of its own
Settle(r) ==
    IF r.threw /\ view = "dashboard"
    THEN /\ Catch(r.value)
         /\ UNCHANGED <<files, towers, fileIndex, processedFiles, allTowers, attempted>>
    ELSE EndOfTurn(IF view = "dashboard" /\ ~r.threw
                   THEN Append(processedFiles, r.value) ELSE processedFiles,
                   IF view = "map" /\ ~r.threw
                   THEN allTowers \o r.value ELSE allTowers)

\* the answer to the download of the current file arrives
DownloadResponse ==
    /\ pc = "download"
    /\ \E o \in DownloadOutcomes(view) :
          /\ outcomes' = Append(outcomes, o)
          /\ Settle(DownloadAndParse(excelFiles[fileIndex], o))
    /\ UNCHANGED <<view, configured, mounted, excelFiles, pureVars>>

NextPage ==
    \/ MountEffect
    \/ ClickLoadData
    \/ TestResponse
    \/ ListResponse
    \/ DownloadResponse

SpecPage == InitPage /\ [][NextPage]_vars

\* a file whose download or parse failed
FileFailed(o) == o.kind # "ok" \/ (view = "dashboard" /\ Len(o.json) < 2)

\* the towers of the files that did not fail, in the order of the listing
TowersOfAll(os) ==
    LET RECURSIVE Upto(_)
        Upto(n) ==
            IF n = 0 THEN <<>>
            ELSE Upto(n - 1) \o (IF FileFailed(os[n]) THEN <<>>
                                 ELSE processExcelData(parseCSVData(os[n].csv)))
    IN  Upto(Len(os))

\* C8: a failure of one file never aborts the batch. The files are attempted
\* in the order of the listing; the call ends through its catch only before
\* any file was attempted; when the batch of the dashboard completes, files
\* holds one entry per listed file, in order, a failed file's entry having
\* empty data, no fields and a null chart and any other entry being what
\* processFileData makes of that file's own sheet; when the batch of the map
\* completes, towers holds the towers of the files that did not fail.
C8_FailureNeverAborts ==
    /\ pc = "download" =>
          /\ attempted = SubSeq(excelFiles, 1, fileIndex)
          /\ Len(outcomes) = fileIndex - 1
    /\ batchEnd = "error" => attempted = <<>>
    /\ batchEnd = "complete" =>
          /\ attempted = excelFiles
          /\ Len(outcomes) = Len(excelFiles)
          /\ view = "dashboard" =>
                /\ Len(files) = Len(excelFiles)
                /\ \A n \in 1..Len(files) :
                      /\ files[n].id = excelFiles[n].id
                      /\ files[n].name = excelFiles[n].name
                      /\ IF FileFailed(outcomes[n])
                         THEN /\ files[n].data = <<>>
                              /\ files[n].fields = <<>>
                              /\ files[n].chart = JsNull
                         ELSE files[n] =
                                 processFileData(FormatRows(HeaderKeys(outcomes[n].json[1]),
                                                            Tail(outcomes[n].json)),
                                                 excelFiles[n].name, excelFiles[n].id)
          /\ view = "map" => towers = TowersOfAll(outcomes)

\* the dashboard listed two files: the download of the first answered not ok,
\* the second was charted
C8_Witness ==
    /\ view = "dashboard"
    /\ batchEnd = "complete"
    /\ Len(excelFiles) = 2
    /\ outcomes[1].kind = "notok"
    /\ outcomes[2].kind = "ok"
    /\ Len(files) = 2
    /\ files[1].data = <<>>
    /\ Len(files[2].data) = 3
    /\ files[2].chart # JsNull

----------------------------------------------------------------------------
(* SpecAccept: processExcelData applied to one row that carries, besides its
   coordinates and its location, one column of the other fields *)

Range(seq) == {seq[i] : i \in 1..Len(seq)}

\* the names processExcelData looks the other fields up by
OtherNames ==
    Range(VoltageNames) \cup Range(TowerTypeNames) \cup Range(UnitNames)
    \cup Range(SubstationNames) \cup Range(RegionNames) \cup Range(StatusNames)
    \cup Range(FunctlocNames)

\* what the column of another field may hold: nothing, a placeholder, numbers
OtherCells ==
    {<<>>, sUnknownStatus, <<"1", "5", "0">>, <<"1", "0", "7", ".", "5">>}

AcceptRows ==
    {<< [k |-> aLockLat, v |-> JsStr(lat)],
        [k |-> aLockLong, v |-> JsStr(lng)],
        [k |-> aNamaLokasi, v |-> JsStr(loc)],
        [k |-> other, v |-> JsStr(cell)] >> :
        lat \in {<<>>, <<"-", "6", ".", "2">>, <<"9", "5">>},
        lng \in {<<>>, <<"1", "0", "7", ".", "5">>, <<"0">>},
        loc \in {<<>>, sSite},
        other \in OtherNames,
        cell \in OtherCells}

InitAccept ==
    /\ csvRows \in {<<r>> : r \in AcceptRows}
    /\ towerData = NoResult
    /\ phase = "accept"
    /\ ClassifyIdle /\ FileIdle /\ LookupIdle /\ UnitIdle /\ PageIdle

CallProcessExcelDataOnRow ==
    /\ phase = "accept"
    /\ towerData' = processExcelData(csvRows)
    /\ phase' = "accepted"
    /\ UNCHANGED <<csvRows, classifyVars, fileVars, lookupVars, unitVars, pageVars>>

NextAccept == CallProcessExcelDataOnRow

SpecAccept == InitAccept /\ [][NextAccept]_vars

\* the row without its columns of the other fields
WithoutOthers(row) == SelectSeq(row, LAMBDA c : c.k \notin OtherNames)

\* C11: whether a row is accepted does not depend on its columns of the unit,
\* tower type, voltage, substation, region, status and id: the row is accepted
\* exactly when it is accepted without them
C11_OtherColumnsIrrelevant ==
    phase = "accepted" =>
        Len(towerData) = Len(processExcelData(<<WithoutOthers(csvRows[1])>>))

----------------------------------------------------------------------------
(* SpecClean: cleanString applied to one string *)

\* strings of commas, letters and blanks
CleanInputs == SeqsUpTo({",", "a", " "}, MaxCleanLen)

\* limits short enough for these strings to exceed
CleanLimits == {0, 1, 3, 5}

InitClean ==
    /\ cleanInput \in CleanInputs
    /\ cleanLimit \in CleanLimits
    /\ cleanOutput = <<>>
    /\ markerVoltage = 0 /\ markerColor = "" /\ markerSize = 0
    /\ phase = "clean"
    /\ ClassifyIdle /\ FileIdle /\ LookupIdle /\ TowerIdle /\ PageIdle

CallCleanString ==
    /\ phase = "clean"
    /\ cleanOutput' = cleanString(cleanInput, cleanLimit)
    /\ phase' = "cleaned"
    /\ UNCHANGED <<cleanInput, cleanLimit, markerVoltage, markerColor, markerSize,
                   classifyVars, fileVars, lookupVars, towerVars, pageVars>>

NextClean == CallCleanString

SpecClean == InitClean /\ [][NextClean]_vars

\* C12: what cleanString returns has no two adjacent commas and neither
\* begins nor ends with a comma
C12_NoStrayCommas ==
    phase = "cleaned" =>
        /\ \A i \in 1..(Len(cleanOutput) - 1) :
              ~(cleanOutput[i] = "," /\ cleanOutput[i + 1] = ",")
        /\ cleanOutput # <<>> =>
              cleanOutput[1] # "," /\ cleanOutput[Len(cleanOutput)] # ","

\* cleanString("a,,a,,", 5) is "a,a"
C12_Witness ==
    /\ phase = "cleaned"
    /\ cleanInput = <<"a", ",", ",", "a", ",", ",">>
    /\ cleanLimit = 5
    /\ cleanOutput = <<"a", ",", "a">>

----------------------------------------------------------------------------
(* Sheets and exports of fewer than two rows *)

\* the download answered a sheet of fewer than two rows
ShortSheet(o) == o.kind = "ok" /\ Len(o.json) < 2

\* the non-blank lines of a text
NonBlankLines(text) == SelectSeq(SplitOn(text, "\n"), LAMBDA line : trim(line) # <<>>)

\* the download answered an export of fewer than two non-blank lines
ShortExport(o) == o.kind = "ok" /\ Len(NonBlankLines(o.csv)) < 2

\* C13: on the dashboard a sheet of fewer than two rows gives an entry with
\* empty data, no fields, a null chart and the error "insufficient data", and
\* the page counts it among the failed files; on the map an export of fewer
\* than two non-blank lines gives no row and no tower
C13_InsufficientData ==
    /\ view = "dashboard" =>
          /\ \A n \in 1..Len(processedFiles) :
                ShortSheet(outcomes[n]) =>
                    /\ processedFiles[n].data = <<>>
                    /\ processedFiles[n].fields = <<>>
                    /\ processedFiles[n].chart = JsNull
                    /\ "error" \in DOMAIN processedFiles[n]
                    /\ processedFiles[n].error = "${fileName} has insufficient data"
          /\ batchEnd = "complete" =>
                /\ files = processedFiles
                /\ (\E n \in 1..Len(outcomes) : ShortSheet(outcomes[n])) =>
                      error.text \in {sNoneProcessed, sSomeFailed}
                /\ (\A n \in 1..Len(outcomes) : ShortSheet(outcomes[n])) =>
                      error.text = sNoneProcessed
    /\ view = "map" =>
          /\ \A n \in 1..Len(outcomes) :
                ShortExport(outcomes[n]) =>
                    /\ parseCSVData(outcomes[n].csv) = <<>>
                    /\ processExcelData(parseCSVData(outcomes[n].csv)) = <<>>
          /\ (\A n \in 1..Len(outcomes) : outcomes[n].kind # "ok" \/ ShortExport(outcomes[n])) =>
                allTowers = <<>>
          /\ (batchEnd = "complete"
              /\ \A n \in 1..Len(outcomes) : outcomes[n].kind # "ok" \/ ShortExport(outcomes[n])) =>
                towers = <<>>

\* the dashboard listed two files: the first sheet is a header alone, the
\* second is charted, and the page reports one file of each kind
C13_Witness ==
    /\ view = "dashboard"
    /\ batchEnd = "complete"
    /\ Len(outcomes) = 2
    /\ ShortSheet(outcomes[1]) /\ Len(outcomes[1].json) = 1
    /\ files[1].data = <<>>
    /\ files[1].error = "${fileName} has insufficient data"
    /\ files[2].chart # JsNull
    /\ error.text = sSomeFailed /\ error.a = 1 /\ error.b = 1

----------------------------------------------------------------------------
(* SpecMarker: the colour and the size of the marker of a tower *)

getMarkerColor(voltage) ==
    IF voltage >= 500 THEN "#DC2626"
    ELSE IF voltage >= 150 THEN "#EA580C"
    ELSE IF voltage >= 70 THEN "#CA8A04"
    ELSE "#059669"

\* the size with exclusive lower bounds
getMarkerSize_exclusive(voltage) ==
    IF voltage > 500 THEN 28
    ELSE IF voltage > 150 THEN 24
    ELSE IF voltage > 70 THEN 20
    ELSE 16

getMarkerSize(voltage) ==
    IF voltage >= 500 THEN 28
    ELSE IF voltage >= 150 THEN 24
    ELSE IF voltage >= 70 THEN 20
    ELSE 16

Voltages == (0 - MaxVoltage)..MaxVoltage

InitMarker ==
    /\ markerVoltage \in Voltages
    /\ markerColor = "" /\ markerSize = 0
    /\ cleanInput = <<>> /\ cleanLimit = 0 /\ cleanOutput = <<>>
    /\ phase = "marker"
    /\ ClassifyIdle /\ FileIdle /\ LookupIdle /\ TowerIdle /\ PageIdle

\* a marker is drawn
DrawMarker ==
    /\ phase = "marker"
    /\ markerColor' = getMarkerColor(markerVoltage)
    /\ markerSize' = getMarkerSize(markerVoltage)
    /\ phase' = "drawn"
    /\ UNCHANGED <<markerVoltage, cleanInput, cleanLimit, cleanOutput,
                   classifyVars, fileVars, lookupVars, towerVars, pageVars>>

NextMarker == DrawMarker

SpecMarker == InitMarker /\ [][NextMarker]_vars

\* C14: 500 and above is red and 28, 150 to 499 orange and 24, 70 to 149
\* yellow and 20, below 70 green and 16; no lower voltage has a larger marker
C14_MarkerTiers ==
    phase = "drawn" =>
        /\ markerVoltage >= 500 => markerColor = "#DC2626" /\ markerSize = 28
        /\ (markerVoltage >= 150 /\ markerVoltage < 500) =>
              markerColor = "#EA580C" /\ markerSize = 24
        /\ (markerVoltage >= 70 /\ markerVoltage < 150) =>
              markerColor = "#CA8A04" /\ markerSize = 20
        /\ markerVoltage < 70 => markerColor = "#059669" /\ markerSize = 16
        /\ \A lower \in Voltages : lower <= markerVoltage => getMarkerSize(lower) <= markerSize

\* the marker of a tower of exactly 150 kV is orange and 24
C14_Witness ==
    /\ phase = "drawn"
    /\ markerVoltage = 150
    /\ markerColor = "#EA580C"
    /\ markerSize = 24

----------------------------------------------------------------------------
(* SpecPageLive: the page, every request being answered in the end *)

\* a fetch that was started resolves or rejects
FetchesSettle ==
    /\ WF_vars(TestResponse)
    /\ WF_vars(ListResponse)
    /\ WF_vars(DownloadResponse)

SpecPageLive == InitPage /\ [][NextPage]_vars /\ FetchesSettle

\* C15: once isLoading is true the call runs to its end and isLoading becomes
\* false again, however the requests are answered
C15_LoadingEnds == (isLoading ~> (~isLoading /\ pc = "idle" /\ batchEnd # "none"))

\* a batch of two files, the first rejected and the second not ok, has ended
\* and the page no longer loads
C15_Witness ==
    /\ ~isLoading
    /\ batchEnd = "complete"
    /\ Len(outcomes) = 2
    /\ outcomes[1].kind = "reject"
    /\ outcomes[2].kind = "notok"

----------------------------------------------------------------------------
(* One download at a time *)

\* the downloads started and not yet answered
InFlight == Len(attempted) - Len(outcomes)

\* the progress names a file
NamesFile(progress) == progress.text = "Processing ${fileName}..."

\* C16: at most one download is in flight; the download of the next file
\* starts in the step that ends the one before; the progress names a file only
\* while that file is in flight; no call of fetchGoogleDriveFiles starts while
\* one is running
C16_OneAtATime ==
    /\ [](/\ InFlight \in {0, 1}
          /\ InFlight = 1 <=> pc = "download"
          /\ pc = "download" => attempted[Len(attempted)] = excelFiles[fileIndex]
          /\ NamesFile(loadingProgress) =>
                /\ pc = "download"
                /\ loadingProgress.name = excelFiles[fileIndex].name
          /\ isLoading <=> pc # "idle")
    /\ [][/\ Len(attempted') > Len(attempted) =>
                Len(outcomes') = Len(attempted)
          /\ pc' = "test" => pc = "idle"]_vars

\* the map downloads its second file, the first having been answered
C16_Witness ==
    /\ view = "map"
    /\ pc = "download"
    /\ fileIndex = 2
    /\ Len(outcomes) = 1
    /\ InFlight = 1
    /\ loadingProgress.name = excelFiles[2].name

----------------------------------------------------------------------------
(* SpecColumn: analyzeField applied to a column under a name without keyword *)

sDollar250 == <<"$", "2", "5", "0", ".", "5", "0">>
sDollar75 == <<"$", "7", "5", ".", "2", "5">>
sThousand == <<"1", ",", "0", "0", "0">>

\* what a cell of a short column may hold
ColumnCells ==
    {JsNull, JsStr(sDollar100), JsStr(sDollar250), JsStr(sDollar75), JsStr(sThousand),
     JsStr(s7point5), JsNum(10 * Scale), JsNum(750), JsStr(sA), JsStr(sB)}

ShortColumns == SeqsUpTo(ColumnCells, MaxValues)

\* columns of four and five cells, numbers and text mixed
MidColumns ==
    UNION {[1..k -> {JsNum(10 * Scale), JsNum(20 * Scale), JsStr(sA), JsStr(sB)}] : k \in 4..5}

\* a column of n text cells, u of them distinct
BigColumn(n, u) == [i \in 1..n |-> JsStr(<<"t">> \o DigitsOfNat(((i - 1) % u) + 1))]

BigColumns == {BigColumn(n, u) : n \in 21..MaxBigColumn, u \in 19..MaxBigColumn}

\* six cells with distinct texts, at most one of them empty (k = 0: none)
GappedColumns ==
    {[i \in 1..(SampleSize + 1) |->
        IF i = k THEN JsNull ELSE JsStr(<<"t">> \o DigitsOfNat(i))] : k \in 0..(SampleSize + 1)}

InitColumn ==
    /\ values \in ShortColumns \cup MidColumns \cup BigColumns \cup GappedColumns
    /\ fieldName = nNotes
    /\ fieldInfo = NoResult
    /\ phase = "input"
    /\ FileIdle /\ LookupIdle /\ TowerIdle /\ UnitIdle /\ PageIdle

NextColumn == CallAnalyzeField

SpecColumn == InitColumn /\ [][NextColumn]_vars

NoKeyword(name) == ~HasKeyword(name, DimensionKeywords) /\ ~HasKeyword(name, MetricKeywords)

\* what the descriptor says of the numeric subset
StatsAre(info, numeric) ==
    Len(numeric) > 0 =>
        /\ info.total = JsNum(SumSeq(numeric))
        /\ info.average = Ratio(SumSeq(numeric), Len(numeric))
        /\ info.min.t = "number" /\ \A i \in 1..Len(numeric) : info.min.n <= numeric[i]
        /\ info.max.t = "number" /\ \A i \in 1..Len(numeric) : info.max.n >= numeric[i]
        /\ \E i \in 1..Len(numeric) : info.min.n = numeric[i]
        /\ \E i \in 1..Len(numeric) : info.max.n = numeric[i]

\* C17 as stated: a column under a name without keyword in which some non-null
\* value, text or number, reads as optional $, digits and an optional fraction
\* of two digits once its commas are removed, is a currency metric with the
\* statistics of its numeric subset
C17_AnyValueCurrency ==
    ( /\ Classified
      /\ NoKeyword(fieldName)
      /\ \E i \in 1..Len(nonNullValuesOf(values)) :
            LooksLikeCurrency_anyType(nonNullValuesOf(values)[i]) ) =>
        /\ fieldInfo.type = "currency"
        /\ fieldInfo.isMetric /\ ~fieldInfo.isDimension
        /\ StatsAre(fieldInfo, numericValuesOf(nonNullValuesOf(values)))

\* C17 amended: the same, for a column in which some non-null string reads so
C17_StringCurrency ==
    ( /\ Classified
      /\ NoKeyword(fieldName)
      /\ \E i \in 1..Len(values) :
            /\ values[i].t = "string"
            /\ values[i].s \notin {<<>>, NotAvailable}
            /\ MatchesCurrency(RemoveChars(values[i].s, {","})) ) =>
        /\ fieldInfo.type = "currency"
        /\ fieldInfo.isMetric /\ ~fieldInfo.isDimension
        /\ StatsAre(fieldInfo, numericValuesOf(nonNullValuesOf(values)))

\* ["$100.00", "$250.50", "$75.25"] is a currency metric of total 425.75
C17_Witness ==
    /\ Classified
    /\ fieldName = nNotes
    /\ values = <<JsStr(sDollar100), JsStr(sDollar250), JsStr(sDollar75)>>
    /\ fieldInfo.type = "currency"
    /\ fieldInfo.isMetric
    /\ fieldInfo.total = JsNum(42575)
    /\ fieldInfo.average = Ratio(42575, 3)
    /\ fieldInfo.min = JsNum(7525) /\ fieldInfo.max = JsNum(25050)

\* the column has a value, and none of its strings reads as a currency
PlainColumn(vals) ==
    /\ nonNullValuesOf(vals) # <<>>
    /\ \A i \in 1..Len(vals) :
          ~(/\ vals[i].t = "string"
            /\ vals[i].s \notin {<<>>, NotAvailable}
            /\ MatchesCurrency(RemoveChars(vals[i].s, {","})))

CountNonNull(vals) == Len(nonNullValuesOf(vals))
CountNumeric(vals) == Len(numericValuesOf(nonNullValuesOf(vals)))
CountUnique(vals) == Cardinality(Range(nonNullValuesOf(vals)))

\* |numericValues| >= 0.8 * |nonNull|
MostlyNumeric(vals) == 5 * CountNumeric(vals) >= 4 * CountNonNull(vals)

\* uniqueCount > 1, uniqueCount <= max(20, 0.7 * |nonNull|) and
\* |numericValues| < 0.5 * |nonNull|
FewDistinctTexts(vals) ==
    /\ CountUnique(vals) > 1
    /\ (CountUnique(vals) <= 20 \/ 10 * CountUnique(vals) <= 7 * CountNonNull(vals))
    /\ 2 * CountNumeric(vals) < CountNonNull(vals)

\* C18: a column with a value, no currency string and no keyword in its name
\* is a number metric exactly when four fifths of its values are numeric;
\* otherwise a category dimension exactly when the category test passes;
\* otherwise text with no role
C18_NumberCategoryText ==
    (Classified /\ NoKeyword(fieldName) /\ PlainColumn(values)) =>
        /\ fieldInfo.type = (IF MostlyNumeric(values) THEN "number"
                             ELSE IF FewDistinctTexts(values) THEN "category"
                             ELSE "text")
        /\ fieldInfo.isMetric <=> MostlyNumeric(values)
        /\ fieldInfo.isDimension <=> (~MostlyNumeric(values) /\ FewDistinctTexts(values))
        /\ MostlyNumeric(values) =>
              StatsAre(fieldInfo, numericValuesOf(nonNullValuesOf(values)))

\* thirty texts, twenty-one of them distinct: more than 20 and no more than
\* 0.7 * 30, a category
C18_Witness ==
    /\ Classified
    /\ Len(values) = 30
    /\ CountUnique(values) = 21
    /\ CountNumeric(values) = 0
    /\ fieldInfo.type = "category"
    /\ fieldInfo.isDimension /\ ~fieldInfo.isMetric

----------------------------------------------------------------------------
(* SpecClassifyOlder: analyzeField of the older copy of the dashboard *)

\* the names that force a dimension in the older copy
OlderDimensionKeywords == {kwName, kwMesin, kwCategory, kwType}

\* the names that force a metric in the older copy
OlderMetricKeywords == {kwTotal, kwAmount, kwJam, kwHour, kwCount, kwSum}

\* analyzeField of the older copy: the same tests on the values, fewer
\* keywords, and a descriptor of four fields
OlderAnalyzeField(vals, name) ==
    LET nonNull == nonNullValuesOf(vals)
        numeric == numericValuesOf(nonNull)
        pass == StatisticalPass(nonNull, numeric)
        afterA == IF HasKeyword(name, OlderDimensionKeywords)
                  THEN [pass EXCEPT !.type = "category", !.isDimension = TRUE,
                                    !.isMetric = FALSE]
                  ELSE pass
        afterB == IF HasKeyword(name, OlderMetricKeywords) /\ Len(numeric) > 0
                  THEN [afterA EXCEPT !.type = "number", !.isMetric = TRUE,
                                      !.isDimension = FALSE]
                  ELSE afterA
    IN  IF nonNull = <<>>
        THEN [name |-> name, type |-> "text", isMetric |-> FALSE, isDimension |-> FALSE]
        ELSE [name |-> name, type |-> afterB.type, isMetric |-> afterB.isMetric,
              isDimension |-> afterB.isDimension]

CallOlderAnalyzeField ==
    /\ phase = "input"
    /\ fieldInfo' = OlderAnalyzeField(values, fieldName)
    /\ phase' = "done"
    /\ UNCHANGED <<values, fieldName, fileVars, lookupVars, towerVars, unitVars, pageVars>>

NextClassifyOlder == CallOlderAnalyzeField

SpecClassifyOlder == InitClassify /\ [][NextClassifyOlder]_vars

\* C19: a column with a value whose name holds a dimension keyword (name,
\* mesin, category, type, status, department) and no metric keyword is a
\* category dimension and no metric, whatever its values
C19_DimensionOverride ==
    ( /\ Classified
      /\ ~AllEmpty(values)
      /\ HasKeyword(fieldName, DimensionKeywords)
      /\ ~HasKeyword(fieldName, MetricKeywords) ) =>
        /\ fieldInfo.type = "category"
        /\ fieldInfo.isDimension
        /\ ~fieldInfo.isMetric

----------------------------------------------------------------------------
(* the samples of a column *)

\* the raw entries the samples are said to be drawn from
LeadingEntries == SubSeq(values, 1, IF Len(values) < SampleSize THEN Len(values) ELSE SampleSize)

\* where a string is first seen among the leading raw entries, 0 when nowhere
FirstSeen(str) ==
    LET at == {k \in 1..Len(LeadingEntries) : JsToString(LeadingEntries[k]) = str}
    IN  IF at = {} THEN 0 ELSE Least(at)

AtMostFive == Len(fieldInfo.sampleValues) <= SampleSize

NoTwoEqual ==
    \A i, j \in 1..Len(fieldInfo.sampleValues) :
        i < j => fieldInfo.sampleValues[i] # fieldInfo.sampleValues[j]

FromLeadingEntries ==
    \A i \in 1..Len(fieldInfo.sampleValues) : FirstSeen(fieldInfo.sampleValues[i]) > 0

InFirstSeenOrder ==
    \A i, j \in 1..Len(fieldInfo.sampleValues) :
        (i < j /\ FirstSeen(fieldInfo.sampleValues[i]) > 0
               /\ FirstSeen(fieldInfo.sampleValues[j]) > 0) =>
            FirstSeen(fieldInfo.sampleValues[i]) <= FirstSeen(fieldInfo.sampleValues[j])

\* C20: the sampleValues of a column are at most 5 strings, no two of them
\* equal, in first-seen order, drawn from the first 5 raw entries of the column
C20_SampleValues ==
    Classified => AtMostFive /\ NoTwoEqual /\ FromLeadingEntries /\ InFirstSeenOrder

----------------------------------------------------------------------------
(* the groups of a chart, from the rows' own dimension values *)

\* a dimension value that is absent, null or empty
IsMissing(v) == v \in {JsUndefined, JsNull, JsStr(<<>>)}

\* the group a row belongs to by its own dimension value
OwnGroup(row, dimensionName) ==
    IF IsMissing(Get(row, dimensionName)) THEN sUnknown
    ELSE JsToString(Get(row, dimensionName))

RECURSIVE OwnSum(_, _, _)
OwnSum(fd, cat, n) ==
    IF n = 0 THEN 0
    ELSE OwnSum(fd, cat, n - 1)
         + (IF OwnGroup(fd.data[n], fd.chart.xAxis) = cat
            THEN MetricValueOf(fd.data[n], fd.chart.yAxis) ELSE 0)

OwnGroups(fd) == {OwnGroup(fd.data[i], fd.chart.xAxis) : i \in 1..Len(fd.data)}

\* C21: with no more groups than bars, every row's own group (its dimension
\* value, "Unknown" when that is absent, null or empty) is the category of
\* exactly one point, and every point's value is the sum of the metric values
\* of the rows of its group
C21_GroupedByOwnValue ==
    (HasChart /\ Cardinality(OwnGroups(fileData)) <= TopN) =>
        LET pts == fileData.chart.data
        IN  /\ \A g \in OwnGroups(fileData) :
                  Cardinality({i \in 1..Len(pts) : pts[i].category = g}) = 1
            /\ \A i \in 1..Len(pts) :
                  pts[i].value = OwnSum(fileData, pts[i].category, Len(fileData.data))

----------------------------------------------------------------------------
(* what a metric cell counts for, in the classifier and in the chart *)

\* the value the classifier gives a cell: its number when it is in the numeric
\* subset, 0 when it is left out of it
ClassifierValue(v) ==
    IF nonNullValuesOf(<<v>>) # <<>> /\ IsNumeric(v) THEN StringToNumber(NumStr(v)).n ELSE 0

RECURSIVE ClassifierSum(_, _, _)
ClassifierSum(fd, cats, n) ==
    IF n = 0 THEN 0
    ELSE ClassifierSum(fd, cats, n - 1)
         + (IF CategoryOf(fd.data[n], fd.chart.xAxis) \in cats
            THEN ClassifierValue(Get(fd.data[n], fd.chart.yAxis)) ELSE 0)

\* C22: a metric cell that the classifier leaves out of its numeric subset adds
\* 0 to its group and to the total of the chart, and a cell of the numeric
\* subset adds the number the classifier reads: the total and the points are
\* the sums of the classifier's values
C22_OneNotionOfParsing ==
    HasChart =>
        LET pts == fileData.chart.data
        IN  /\ fileData.chart.dataTotal
                  = ClassifierSum(fileData, GroupsOf(fileData), Len(fileData.data))
            /\ \A i \in 1..Len(pts) :
                  pts[i].value = ClassifierSum(fileData, {pts[i].category}, Len(fileData.data))

----------------------------------------------------------------------------
(* the two passes of findColumnValue *)

\* the candidate is literally a key of the row, with a non-blank value
IsExact(i) ==
    /\ HasKey(lookupRow, lookupNames[i])
    /\ Get(lookupRow, lookupNames[i]) \notin {JsNull, JsUndefined}
    /\ trim(JsToString(Get(lookupRow, lookupNames[i]))) # <<>>

\* C23: when some candidate is literally a key with a non-blank value, the
\* result is the trimmed value of the first such candidate of the list,
\* wherever its key stands in the row and whatever an earlier candidate overlaps
C23_ExactPassByCandidateOrder ==
    LookedUp =>
        \A i \in 1..Len(lookupNames) :
            (IsExact(i) /\ \A h \in 1..(i - 1) : ~IsExact(h)) =>
                lookupResult = trim(JsToString(Get(lookupRow, lookupNames[i])))

\* "LAT" is found although the row lists first a key "lat" that the earlier
\* candidate "LOCK LAT" overlaps
C23_Witness ==
    /\ LookedUp
    /\ lookupNames = LatNames
    /\ Len(lookupRow) = 2
    /\ lookupRow[1].k = kLat /\ lookupRow[1].v = JsStr(sSpace5)
    /\ lookupRow[2].k = aLAT /\ lookupRow[2].v = JsStr(sMinus6Comma2)
    /\ lookupResult = sMinus6Comma2

\* candidate i and key j overlap, and the value of key j is non-blank
IsFuzzy(i, j) ==
    /\ \/ includes(toLowerCase(lookupRow[j].k), toLowerCase(lookupNames[i]))
       \/ includes(toLowerCase(lookupNames[i]), toLowerCase(lookupRow[j].k))
    /\ lookupRow[j].v \notin {JsNull, JsUndefined}
    /\ trim(JsToString(lookupRow[j].v)) # <<>>

FuzzyPairs == {p \in (1..Len(lookupNames)) \X (1..Len(lookupRow)) : IsFuzzy(p[1], p[2])}

\* C24: when no candidate is exact, the result is the trimmed value of the
\* first overlapping pair, candidates first and keys within a candidate, and
\* it is "" exactly when no pair overlaps
C24_FuzzyPassByCandidateThenKey ==
    (LookedUp /\ \A i \in 1..Len(lookupNames) : ~IsExact(i)) =>
        /\ (lookupResult = <<>>) <=> (FuzzyPairs = {})
        /\ \A p \in FuzzyPairs :
              (\A q \in FuzzyPairs : p[1] < q[1] \/ (p[1] = q[1] /\ p[2] <= q[2])) =>
                  lookupResult = trim(JsToString(lookupRow[p[2]].v))

\* "LOCK LAT" overlaps the second key before "LAT" overlaps the first
C24_Witness ==
    /\ LookedUp
    /\ lookupNames = LatNames
    /\ Len(lookupRow) = 2
    /\ lookupRow[1].k = kLatLon /\ lookupRow[1].v = JsStr(sMinus6Comma2)
    /\ lookupRow[2].k = kLat /\ lookupRow[2].v = JsStr(sSpace5)
    /\ lookupResult = <<"5">>

----------------------------------------------------------------------------
(* the long-string branch of cleanString and the length of its result *)

\* the input with its runs of commas collapsed and its edge commas removed
CommaCleaned == StripEdgeCommas(CollapseCommas(cleanInput))

Segments == SplitOn(CommaCleaned, ",")

\* the segments of trimmed length in (3, maxLength)
Qualifying ==
    {i \in 1..Len(Segments) :
        Len(trim(Segments[i])) > 3 /\ Len(trim(Segments[i])) < cleanLimit}

LongWithComma ==
    /\ phase = "cleaned"
    /\ cleanInput # <<>>
    /\ Len(CommaCleaned) > cleanLimit
    /\ \E i \in 1..Len(CommaCleaned) : CommaCleaned[i] = ","

\* C25: of a comma-cleaned string longer than maxLength that holds a comma,
\* cleanString returns the first segment of trimmed length in (3, maxLength),
\* trimmed, and the first segment trimmed when no segment qualifies
C25_FirstMeaningfulSegment ==
    LongWithComma =>
        /\ \A i \in Qualifying :
              (\A j \in Qualifying : i <= j) => cleanOutput = trim(Segments[i])
        /\ Qualifying = {} => cleanOutput = trim(Segments[1])

\* cleanString("a,aaaa", 5) is the second segment
C25_Witness ==
    /\ LongWithComma
    /\ cleanInput = <<"a", ",", "a", "a", "a", "a">>
    /\ cleanLimit = 5
    /\ cleanOutput = <<"a", "a", "a", "a">>

\* C28: the result is never longer than maxLength plus the ellipsis: a long
\* string without comma is its first maxLength characters and "...", and any
\* other result has at most maxLength characters
C28_BoundedLength ==
    phase = "cleaned" =>
        /\ Len(cleanOutput) <= cleanLimit + 3
        /\ IF /\ cleanInput # <<>>
              /\ Len(CommaCleaned) > cleanLimit
              /\ ~\E i \in 1..Len(CommaCleaned) : CommaCleaned[i] = ","
           THEN cleanOutput = SubSeq(CommaCleaned, 1, cleanLimit) \o <<".", ".", ".">>
           ELSE Len(cleanOutput) <= cleanLimit

----------------------------------------------------------------------------
(* a column of dollar amounts, raw and through processFileData *)

\* a string such as "$100.00": a dollar sign, digits and two decimals
IsDollarAmount(v) ==
    /\ v.t = "string"
    /\ v.s # <<>> /\ Head(v.s) = "$"
    /\ MatchesCurrency(v.s)
    /\ \E i \in 1..Len(v.s) : v.s[i] = "."

\* the raw cells under one header
RawColumn(key) == [i \in 1..Len(rawData) |-> Get(rawData[i], key)]

DollarColumns ==
    {j \in 1..Len(fileData.fields) :
        /\ ~HasKeyword(fileData.fields[j].name, DimensionKeywords)
        /\ ~HasKeyword(fileData.fields[j].name, MetricKeywords)
        /\ \A i \in 1..Len(rawData) : IsDollarAmount(Get(rawData[i], fileData.fields[j].name))}

\* C26: a column without keyword whose cells are all dollar amounts of two
\* decimals is a currency after processFileData, the type analyzeField gives
\* the raw cells
C26_NormalisationKeepsCurrency ==
    Processed =>
        \A j \in DollarColumns :
            /\ fileData.fields[j].type = "currency"
            /\ fileData.fields[j].type
                  = analyzeField(RawColumn(fileData.fields[j].name), fileData.fields[j].name).type

----------------------------------------------------------------------------
(* the statistics of a metric *)

\* C27: a descriptor with isMetric = true has its total, average, min and max
\* defined, the total being the sum of the numeric subset and the average
\* lying between min and max
C27_MetricHasStatistics ==
    (Classified /\ fieldInfo.isMetric) =>
        /\ fieldInfo.total.t = "number"
        /\ fieldInfo.average.t = "ratio"
        /\ fieldInfo.min.t = "number"
        /\ fieldInfo.max.t = "number"
        /\ fieldInfo.total.n = SumSeq(numericValuesOf(nonNullValuesOf(values)))
        /\ fieldInfo.min.n * fieldInfo.average.den <= fieldInfo.average.num
        /\ fieldInfo.average.num <= fieldInfo.max.n * fieldInfo.average.den

----------------------------------------------------------------------------
(* what a batch leaves behind *)

\* a call of fetchGoogleDriveFiles has returned and none is running
CallReturned == batchEnd # "none" /\ pc = "idle"

\* C29: once a call of fetchGoogleDriveFiles has returned, isLoading = false
\* implies that loadingProgress is the empty string
C29_NoStaleProgress ==
    (CallReturned /\ ~isLoading) => loadingProgress = NoText

\* the call ends without a file having been processed
FailsEarly ==
    /\ batchEnd' # batchEnd
    /\ batchEnd' \in {"unconfigured", "error", "empty"}

\* C30: a call that ends before any file is processed leaves files and towers
\* as they were and sets a non-empty error; files or towers change only in the
\* step that ends the file loop, and then hold the results of that batch alone
C30_LoadedDataReplacedWhole ==
    [][ /\ FailsEarly => (files' = files /\ towers' = towers /\ error' # NoText)
        /\ (files' # files \/ towers' # towers) =>
              /\ pc = "download" /\ batchEnd' = "complete"
              /\ fileIndex = Len(excelFiles)
              /\ view = "map" => towers' = TowersOfAll(outcomes')
              /\ view = "dashboard" =>
                    /\ Len(files') = Len(excelFiles)
                    /\ \A n \in 1..Len(files') : files'[n].id = excelFiles[n].id ]_vars

\* the map has towers of an earlier load and its latest batch ended in an error
C30_Witness ==
    /\ view = "map"
    /\ batchEnd = "error"
    /\ towers # <<>>
    /\ error # NoText

====
